---- MODULE Spec2Model ----
(***************************************************************************)
(* rin-curium: a command bus over a pub/sub broker.                        *)
(*                                                                         *)
(* The model follows one node, "A" (rin.curium.node.Node), in full: its    *)
(* send calls, its receive loop and worker pool, its sweeper thread and    *)
(* its response handlers.  The other nodes of the bus appear as receivers  *)
(* that execute a wrapped command and publish the AddResponse.             *)
(*                                                                         *)
(* Callers are assumed to keep the handler that send returned (the map is  *)
(* weak-valued; a handler nobody holds is not observable any more).        *)
(***************************************************************************)
EXTENDS Integers, Sequences, FiniteSets, TLC

\* ------------------------------------------------------------------ bounds
MaxSends == 1          \* Node.send calls (caller threads) in Spec
MaxCalls == 2          \* concurrent Node.send calls in SpecSend and SpecPair
MaxTime == 1           \* the clock runs 0..MaxTime
MaxReceivers == 2      \* receivers of the one send of SpecSweep
MaxTries == 2          \* reconnect_max_tries ranges over 0..MaxTries
MaxFails == 3          \* reconnect() calls the broker refuses, 0..MaxFails
MaxLog == 2            \* log records kept of repeated Node.connect calls
MaxClosers == 2        \* threads that call Node.close concurrently
MaxSenders == 2        \* threads that call RedisConnection.send concurrently
MaxExpire == 2         \* RedisConnection(expire): the TTL of a key, in ticks
MaxVal == 3            \* an identity key is INCRemented up to MaxVal
MaxResponses == 2      \* add_response calls made on a handler directly
MaxDests == 2          \* the length of a destination list
MaxReaders == 2        \* threads that iterate over one handler
MaxAdders == 2         \* threads inside add_response of one handler

\* ------------------------------------------------------------ conventions
None == -1             \* Python's None in an Optional[int] / Optional[float] field
NoCid == << >>         \* no correlation id yet

Self == "A"            \* the nid of the modelled node
NoNid == ""            \* Node._nid is None: connect has not run
Nodes == {"A", "B"}

\* the timeouts a caller may pass to send (response_timeout)
Timeouts == {None, 0}
\* what the inner command of a send does on a receiver: it returns a value
SendKinds == {"value"}
\* the destination collections a caller may pass to send
DestChoices == {{"B"}, {"all", "A"}}

VARIABLES
    nid,            \* Node._nid
    closed,         \* Node._closed_event
    cmd_count,      \* Node._cmd_count: the next value of the counter
    subs,           \* the channels each node has joined
    send,           \* the Node.send calls, one per caller thread
    rh,             \* the response handler objects, by the cid they were made for
    handlers,       \* Node._sent_cmd_response_handlers: cid -> handler
    inbox,          \* messages the broker delivered to A, not yet received
    remote,         \* wrappers delivered to other nodes, not yet executed
    tasks,          \* commands submitted to the worker pool of A
    sweeper,        \* Node._check_response_handlers thread
    recvLoop,       \* Node.recv_until_close
    now,            \* time.time()
    warned,         \* responses dropped by Node.add_response with a warning
    conn,           \* the adapter (RedisConnection) and the broker behind it
    handled,        \* the calls of error_handler: their argument tuples
    log,            \* records of the package logger at WARNING and above
    closers,        \* the threads (and finalizers) inside Node.close
    keys,           \* the broker's identity keys <ns>:<uid>: value and TTL
    adp,            \* the RedisConnection adapters that share the broker
    asend,          \* the calls of RedisConnection.send on one adapter
    pong,           \* that adapter's pong latch and the PINGs not yet answered
    fnmap,          \* atomicmethod._instance_fn_map[adapter] for send
    hnd,            \* a response handler object used through its own methods
    reader,         \* the thread that iterates over hnd (__next__)
    calls,          \* the finalize() and get() calls made on hnd
    bus,            \* the last send through the adapter and its deliveries
    registry,       \* JSONSerializer._registry: command name -> command type
    cmd_contexts,   \* Node._cmd_contexts: command name -> context
    registered,     \* the last register_cmd call and how it ended
    connecting,     \* the thread inside Node.connect
    iterating       \* the threads inside add_response and __next__ of hnd

\* the node and its own adapter
nodeVars == <<nid, closed, cmd_count, subs, send, rh, handlers, inbox, remote,
              tasks, sweeper, recvLoop, now, warned, conn, handled, log>>
\* the identity keys and the adapters that compete for them
brokerVars == <<keys, adp>>
\* the liveness ping of RedisConnection.send
pingVars == <<asend, pong, fnmap>>

\* a response handler and the threads that call its methods
handleVars == <<hnd, reader, calls>>

busVars == <<bus>>

\* the serializer's registry and the node's command contexts
regVars == <<registry, cmd_contexts, registered>>

\* Node.connect, statement by statement
linkVars == <<connecting>>

\* add_response and __next__ of one handler, statement by statement
iterVars == <<iterating>>

vars == <<nodeVars, closers, brokerVars, pingVars, handleVars, busVars, regVars, linkVars,
          iterVars>>

Slots == DOMAIN send    \* the caller threads of Node.send

\* ---------------------------------------------------------------- helpers
RECURSIVE Str(_)
\* str(n) for a natural number: the sequence of its decimal digits
Str(n) == IF n < 10 THEN <<n>> ELSE Str(n \div 10) \o <<n % 10>>

\* a counter that hands out its value without advancing
NextCountStuck(c) == [value |-> c, count |-> c]

\* itertools.count: next(count) returns the value and advances the counter
NextCount(c) == [value |-> c, count |-> c + 1]

\* Node._generate_cid: str(next(self._cmd_count)), atomic
GenerateCid(c) == [cid |-> Str(NextCount(c).value), count |-> NextCount(c).count]

\* BlockUntilAllReceived.__init__ with ResponseHandlerBase.__init__
BlockUntilAllReceived(timeout, t) ==
    [num_receivers |-> None,
     results |-> << >>,
     num_received_results |-> 0,
     finalized |-> FALSE,
     timeout_at |-> IF timeout = None THEN None ELSE timeout + t]

\* Callback.__init__; `called` lists the values the callback was invoked with
Callback(timeout, t) ==
    [num_receivers |-> None,
     results |-> << >>,
     num_received_results |-> 0,
     finalized |-> FALSE,
     timeout_at |-> IF timeout = None THEN None ELSE timeout + t,
     class |-> "Callback",
     called |-> << >>]

\* UpdateTimeoutPerReceive.__init__
UpdateTimeoutPerReceive(timeout, t) ==
    [num_receivers |-> None,
     results |-> << >>,
     num_received_results |-> 0,
     finalized |-> FALSE,
     timeout_at |-> timeout + t,
     class |-> "UpdateTimeoutPerReceive",
     timeout |-> timeout]

\* Node.send_no_response: the destination set handed to the adapter
NormaliseDestinations(D) ==
    IF "all" \in D /\ Cardinality(D) > 1 THEN {"all"} ELSE D

\* the broker's fan-out: one delivery per subscription pattern that matches
Matches(D) == {p \in Nodes \X (UNION {subs[n] : n \in Nodes}) :
                  p[2] \in subs[p[1]] /\ p[2] \in D}

\* a finalize_internal that wants more results than receivers
FinalizeInternalStrict(h, t) ==
    IF h.num_received_results = None /\ h.timeout_at = None
    THEN "true"
    ELSE IF h.num_receivers = None THEN "TypeError"
    ELSE IF h.num_received_results > h.num_receivers THEN "true"
    ELSE IF h.timeout_at = None THEN "TypeError"
    ELSE IF t > h.timeout_at THEN "true" ELSE "false"

\* BlockUntilAllReceived.finalize_internal: "true", "false" or "TypeError"
FinalizeInternal(h, t) ==
    IF h.num_received_results = None /\ h.timeout_at = None
    THEN "true"                      \* the handler is dropped with a warning
    ELSE IF h.num_receivers = None THEN "TypeError"
    ELSE IF h.num_received_results >= h.num_receivers THEN "true"
    ELSE IF h.timeout_at = None THEN "TypeError"
    ELSE IF t > h.timeout_at THEN "true" ELSE "false"

\* a lookup that never finds the handler
GetNoResponseHandler(map, cid) == NoCid

\* Node._get_response_handler_by_cid
GetResponseHandlerByCid(map, cid) ==
    IF cid \in DOMAIN map THEN map[cid] ELSE NoCid

\* an add_response that counts the response without keeping it
AddResponseCountOnly(h, v) ==
    [h EXCEPT !.num_received_results = @ + 1]

\* ResponseHandlerBase.add_response
AddResponseTo(h, v) ==
    [h EXCEPT !.results = Append(@, v), !.num_received_results = @ + 1]

\* the adapter is connected (_pubsub is not None) and the broker answers
Online == conn.pubsub /\ conn.server = "up"

\* ------------------------------------------------------------------- Init
IdleSend == [pc |-> "idle", cid |-> NoCid, dests |-> {}, kind |-> "value", num |-> None]
IdleSweeper == [pc |-> "check", snapshot |-> << >>, cur |-> NoCid]

\* recv_until_close(close_when_exit, reconnect_max_tries) at the top of its loop;
\* i and last_err are the locals of __reconnect_to_backend, error is the
\* exception recv_until_close ended with
RecvUntilClose(close_when_exit, max_tries) ==
    [pc |-> "loop", close_when_exit |-> close_when_exit, max_tries |-> max_tries,
     i |-> 0, last_err |-> "None", error |-> "None"]

\* a connected adapter on a reachable broker; the broker will refuse the next
\* f calls of reconnect() once it has gone down
Connected(f) ==
    [pubsub |-> TRUE, server |-> "up", f |-> f, refuse |-> f, reconnects |-> 0,
     closes |-> 0]

\* uuid4 candidates and the adapters that draw them
Uids == {"u", "v"}
NoUid == ""
Adapters == {1, 2}

\* nobody is inside Node.close
NoClosers == [t \in 1..MaxClosers |-> "idle"]
\* an absent key
NoKey == [val |-> 0, ttl |-> 0]
\* RedisConnection.__init__: no pubsub, no uid, no heartbeat thread
NewAdapter == [pc |-> "new", uid |-> NoUid, hb |-> "none", stop |-> FALSE, link |-> TRUE,
               connected |-> TRUE, last |-> "", parity |-> FALSE]
\* a thread that has not called RedisConnection.send yet
IdleCall == [pc |-> "idle", lock |-> 0, by |-> 0]
\* no call of send so far: latch clear, no PING outstanding, no wrapper cached
NoPings(recv, timeout) ==
    [event |-> FALSE, inflight |-> << >>, last |-> 0, recv |-> recv, timeout |-> timeout]
NoWrapper == [wrapper |-> 0, held |-> {}]

\* the parts of the model a specification leaves alone start like this
BrokerIdle ==
    /\ keys = [u \in Uids |-> NoKey]
    /\ adp = [a \in Adapters |-> NewAdapter]
PingIdle ==
    /\ asend = [s \in 1..MaxSenders |-> IdleCall]
    /\ pong = NoPings(TRUE, None)
    /\ fnmap = NoWrapper

\* command classes; T1 and T2 are two classes with one __cmd_name__
CmdTypes == {"CommandWrapper", "AddResponse", "T1", "T2", "U"}
\* cmd_type.__cmd_name__
CmdName(cmd_type) ==
    CASE cmd_type = "CommandWrapper" -> "__cmd_wrapper__"
      [] cmd_type = "AddResponse" -> "__cmd_add_response__"
      [] cmd_type \in {"T1", "T2"} -> "t"
      [] OTHER -> "u"
\* the ctx argument of Node.register_cmd
NoContextSpecified == "NoContextSpecified"
Contexts == {NoContextSpecified, "c1", "c2"}

\* nobody has called Node.connect; connects counts the calls of
\* adapter.connect() that returned, joined lists the channels joined, started
\* counts the sweeper threads started
NotConnecting ==
    [pc |-> "idle", send_only |-> FALSE, connects |-> 0, joined |-> << >>, started |-> 0]
LinkIdle == connecting = NotConnecting

\* Node.__init__: CommandWrapper is registered with the serializer as its
\* context, AddResponse and the default commands (GetNodeInfos) without one
RegIdle ==
    /\ registry = ("__cmd_wrapper__" :> "CommandWrapper") @@
                  ("__cmd_add_response__" :> "AddResponse") @@
                  ("rin.curium.commands.get_node_infos.GetNodeInfos" :> "GetNodeInfos")
    /\ cmd_contexts = ("__cmd_wrapper__" :> "serializer")
    /\ registered = [typ |-> "AddResponse", ctx |-> NoContextSpecified,
                     raised |-> FALSE, flip |-> FALSE]

\* no send so far
BusIdle ==
    bus = [flip |-> FALSE, via |-> "none", input |-> [str |-> FALSE, names |-> << >>],
           topic |-> << >>, warned |-> FALSE, got |-> [n \in Nodes |-> 0],
           error |-> "ok", cmds |-> << >>]

\* ResponseHandlerBase.__init__: the semaphore and the event of the iterator
Handle(h0) == h0 @@ [iter_semaphore |-> 0, is_next_executed |-> FALSE]
IdleReader == [pc |-> "idle", num_results |-> 0, yielded |-> << >>]
NoResult == [null |-> TRUE, list |-> << >>]
NoCalls == [finalize |-> "none", final_count |-> 0, get |-> "none", mode |-> "timed",
            warned |-> FALSE, ret |-> NoResult]
\* _results_lock is free, nobody is inside add_response or __next__; completed
\* counts the add_response calls that have returned
NotIterating ==
    [lock |-> 0,
     adders |-> [j \in 1..MaxAdders |-> "idle"],
     readers |-> [i \in 1..MaxReaders |-> IdleReader],
     completed |-> 0]
IterIdle == iterating = NotIterating

HandleIdle ==
    /\ hnd = Handle(BlockUntilAllReceived(None, 0))
    /\ reader = IdleReader
    /\ calls = NoCalls
    /\ BusIdle

NodeInit(k) ==
    /\ nid = Self
    /\ closed = FALSE
    /\ cmd_count = 0
    /\ subs = [n \in Nodes |-> IF n = "A" THEN {"A", "all"} ELSE {"B", "all", "x"}]
    /\ send = [s \in 1..k |-> IdleSend]
    /\ rh = << >>
    /\ handlers = << >>
    /\ inbox = {}
    /\ remote = {}
    /\ tasks = {}
    /\ sweeper = IdleSweeper
    /\ recvLoop = RecvUntilClose(TRUE, MaxTries)
    /\ now = 0
    /\ warned = {}
    /\ conn = Connected(0)
    /\ handled = << >>
    /\ log = << >>
    /\ closers = NoClosers

InitWith(k) == NodeInit(k) /\ BrokerIdle /\ PingIdle /\ HandleIdle /\ RegIdle /\ LinkIdle /\ IterIdle

Init == InitWith(MaxSends)
InitCalls == InitWith(MaxCalls)

\* ------------------------------------------------------------ Node.send
\* send, first part: allocate the cid, build the wrapper, choose the handler
SendStart(s, D, timeout, kind) ==
    /\ send[s].pc = "idle"
    /\ nid # NoNid
    /\ \A r \in DOMAIN send : r < s => send[r].pc # "idle"
    /\ LET g == GenerateCid(cmd_count) IN
         /\ cmd_count' = g.count
         /\ send' = [send EXCEPT ![s] = [pc |-> "created", cid |-> g.cid,
                                         dests |-> D, kind |-> kind, num |-> None]]
         /\ rh' = rh @@ (g.cid :> BlockUntilAllReceived(timeout, now))
    /\ UNCHANGED <<iterVars, linkVars, regVars, busVars, handleVars, closers, brokerVars, pingVars, conn, handled, log, nid, closed, subs, handlers, inbox, remote, tasks, sweeper,
                   recvLoop, now, warned>>

\* a message on the bus
Msg(type, cid, from, via, kind) ==
    [type |-> type, cid |-> cid, from |-> from, via |-> via, kind |-> kind]

\* send_no_response -> adapter.send: publish the wrapper, get the count
SendPublish(s) ==
    /\ send[s].pc = "created"
    /\ Online
    /\ LET D == NormaliseDestinations(send[s].dests)
           M == Matches(D)
       IN /\ inbox' = inbox \cup
                 {Msg("wrapper", send[s].cid, nid, p[2], send[s].kind) :
                      p \in {q \in M : q[1] = Self}}
          /\ remote' = remote \cup
                 {[node |-> p[1], msg |-> Msg("wrapper", send[s].cid, nid, p[2], send[s].kind)] :
                      p \in {q \in M : q[1] # Self}}
          /\ send' = [send EXCEPT ![s] = [IdleSend EXCEPT !.pc = "published",
                                     !.cid = send[s].cid, !.num = Cardinality(M)]]
    /\ UNCHANGED <<iterVars, linkVars, regVars, busVars, handleVars, closers, brokerVars, pingVars, conn, handled, log, nid, closed, cmd_count, subs, rh, handlers, tasks, sweeper,
                   recvLoop, now, warned>>

\* a send that leaves its handler in the map when the publish raises
SendRaiseRegistered(s) ==
    /\ send[s].pc = "created"
    /\ ~Online
    /\ send' = [send EXCEPT ![s] = [IdleSend EXCEPT !.pc = "raised", !.cid = send[s].cid]]
    /\ handlers' = (send[s].cid :> send[s].cid) @@ handlers
    /\ UNCHANGED <<iterVars, linkVars, regVars, busVars, handleVars, closers, brokerVars, pingVars, conn, handled, log,
                   nid, closed, cmd_count, subs, rh, inbox, remote, tasks,
                   sweeper, recvLoop, now, warned>>

\* adapter.send raises NotConnected or ServerDisconnected: send raises
SendRaise(s) ==
    /\ send[s].pc = "created"
    /\ ~Online
    /\ send' = [send EXCEPT ![s] = [IdleSend EXCEPT !.pc = "raised", !.cid = send[s].cid]]
    /\ UNCHANGED <<iterVars, linkVars, regVars, busVars, handleVars, closers, brokerVars, pingVars, conn, handled, log, nid, closed, cmd_count, subs, rh, handlers, inbox, remote, tasks,
                   sweeper, recvLoop, now, warned>>

\* send, last part: set_num_receivers, _add_response_handler, return
SendRegister(s) ==
    /\ send[s].pc = "published"
    /\ rh' = [rh EXCEPT ![send[s].cid].num_receivers = send[s].num]
    /\ handlers' = (send[s].cid :> send[s].cid) @@ handlers
    /\ send' = [send EXCEPT ![s] = [IdleSend EXCEPT !.pc = "done", !.cid = send[s].cid]]
    /\ UNCHANGED <<iterVars, linkVars, regVars, busVars, handleVars, closers, brokerVars, pingVars, conn, handled, log, nid, closed, cmd_count, subs, inbox, remote, tasks, sweeper,
                   recvLoop, now, warned>>

\* ----------------------------------------------------- the other nodes
\* CommandWrapper.execute on a node other than the sender
RemoteExecute(r) ==
    /\ r \in remote
    /\ remote' = remote \ {r}
    /\ inbox' = IF r.msg.kind = "value" /\ r.msg.from \in subs[Self]
                THEN inbox \cup {Msg("addresp", r.msg.cid, r.node, r.msg.via, "value")}
                ELSE inbox
    /\ UNCHANGED <<iterVars, linkVars, regVars, busVars, handleVars, closers, brokerVars, pingVars, conn, handled, log, nid, closed, cmd_count, subs, send, rh, handlers, tasks, sweeper,
                   recvLoop, now, warned>>

\* ------------------------------------------- recv_until_close and workers
NewTask(m) == [msg |-> m]

\* JSONSerializer.deserialize on the raw data of m: "ok", or the error it raises
Deserialize(m) == IF m.type = "raw" THEN m.kind ELSE "ok"

\* one iteration of the loop that receives a command and submits it
RecvCommand(m) ==
    /\ recvLoop.pc = "loop"
    /\ ~closed
    /\ Online
    /\ m \in inbox
    /\ Deserialize(m) = "ok"
    /\ inbox' = inbox \ {m}
    /\ tasks' = tasks \cup {NewTask(m)}
    /\ UNCHANGED <<iterVars, linkVars, regVars, busVars, handleVars, closers, brokerVars, pingVars, conn, handled, log, nid, closed, cmd_count, subs, send, rh, handlers, remote, sweeper,
                   recvLoop, now, warned>>

\* the loop sees the closed event and returns: at the loop test, or in the
\* except clause after recv raised NotConnectedError / ServerDisconnectedError
\* on the closed adapter
RecvExit ==
    /\ recvLoop.pc = "loop"
    /\ closed
    /\ recvLoop' = [recvLoop EXCEPT !.pc = "exited"]
    /\ UNCHANGED <<iterVars, linkVars, regVars, busVars, handleVars, closers, brokerVars, pingVars, conn, handled, log, nid, closed, cmd_count, subs, send, rh, handlers, inbox, remote,
                   tasks, sweeper, now, warned>>

\* Node.close on an open node: set the event, RedisConnection.close
NodeClose ==
    /\ closed' = TRUE
    /\ conn' = [conn EXCEPT !.pubsub = FALSE, !.closes = @ + 1]
    /\ subs' = [subs EXCEPT ![Self] = {}]

\* an exit that leaves the node as it is, whatever close_when_exit says
LoopRaisesOpen(e) ==
    /\ recvLoop' = [recvLoop EXCEPT !.pc = "raised", !.error = e]
    /\ UNCHANGED <<closed, conn, subs>>

\* an exception leaves recv_until_close: the ExitStack closes the node when
\* close_when_exit is set (Node.__exit__), then the exception propagates
LoopRaises(e) ==
    /\ recvLoop' = [recvLoop EXCEPT !.pc = "raised", !.error = e]
    /\ IF recvLoop.close_when_exit /\ ~closed
       THEN NodeClose
       ELSE UNCHANGED <<closed, conn, subs>>

\* Node.recv raises InvalidFormatError or CommandNotRegisteredError: neither is
\* a CuriumConnectionError, so the except clause of the loop does not catch it
RecvBadData(m) ==
    /\ recvLoop.pc = "loop"
    /\ ~closed
    /\ Online
    /\ m \in inbox
    /\ Deserialize(m) # "ok"
    /\ inbox' = inbox \ {m}
    /\ LoopRaises(Deserialize(m))
    /\ UNCHANGED <<iterVars, linkVars, regVars, busVars, handleVars, closers, brokerVars, pingVars, handled, log, nid, cmd_count, send, rh, handlers, remote, tasks,
                   sweeper, now, warned>>

\* a loop that reconnects without looking at the closed event
RecvDisconnectedAnyway ==
    /\ recvLoop.pc = "loop"
    /\ conn.server = "down"
    /\ recvLoop' = [recvLoop EXCEPT !.pc = "reconnect", !.i = 0, !.last_err = "None"]
    /\ UNCHANGED <<iterVars, linkVars, regVars, busVars, handleVars, closers, brokerVars, pingVars, conn, handled, log,
                   nid, closed, cmd_count, subs, send, rh, handlers,
                   inbox, remote, tasks, sweeper, now, warned>>

\* Node.recv raises ServerDisconnectedError, the node is open: the loop enters
\* __reconnect_to_backend (last_err = None, i = 0)
RecvDisconnected ==
    /\ recvLoop.pc = "loop"
    /\ ~closed
    /\ conn.pubsub /\ conn.server = "down"
    /\ recvLoop' = [recvLoop EXCEPT !.pc = "reconnect", !.i = 0, !.last_err = "None"]
    /\ UNCHANGED <<iterVars, linkVars, regVars, busVars, handleVars, closers, brokerVars, pingVars, conn, handled, log, nid, closed, cmd_count, subs, send, rh, handlers,
                   inbox, remote, tasks, sweeper, now, warned>>

ReconnectingMsg(i) == <<"warning", "Reconnecting to the backend server", i>>
ReconnectedMsg == <<"warning", "Server reconnected">>

\* one pass of the for loop: adapter.reconnect() returns, or raises
\* ConnectionFailedError (bound to last_err, which the end of the except clause
\* unbinds), or raises NotConnectedError because the node was closed meanwhile
ReconnectAttempt ==
    /\ recvLoop.pc = "reconnect"
    /\ recvLoop.i < recvLoop.max_tries
    /\ IF ~conn.pubsub
       THEN /\ LoopRaises("NotConnectedError")
            /\ log' = Append(log, ReconnectingMsg(recvLoop.i))
       ELSE IF conn.refuse > 0
       THEN /\ conn' = [conn EXCEPT !.refuse = @ - 1, !.reconnects = @ + 1]
            /\ recvLoop' = [recvLoop EXCEPT !.i = @ + 1, !.last_err = "unbound"]
            /\ log' = Append(log, ReconnectingMsg(recvLoop.i))
            /\ UNCHANGED <<closed, subs>>
       ELSE /\ conn' = [conn EXCEPT !.server = "up", !.reconnects = @ + 1]
            /\ recvLoop' = [recvLoop EXCEPT !.pc = "loop"]
            /\ log' = log \o <<ReconnectingMsg(recvLoop.i), ReconnectedMsg>>
            /\ UNCHANGED <<closed, subs>>
    /\ UNCHANGED <<iterVars, linkVars, regVars, busVars, handleVars, closers, brokerVars, pingVars, handled, nid, cmd_count, send, rh, handlers, inbox, remote, tasks,
                   sweeper, now, warned>>

\* after the for loop: raise ServerDisconnectedError(last_err); reading the
\* unbound local raises UnboundLocalError instead
ReconnectExhausted ==
    /\ recvLoop.pc = "reconnect"
    /\ recvLoop.i >= recvLoop.max_tries
    /\ LoopRaises(IF recvLoop.last_err = "unbound"
                  THEN "UnboundLocalError" ELSE "ServerDisconnectedError")
    /\ UNCHANGED <<iterVars, linkVars, regVars, busVars, handleVars, closers, brokerVars, pingVars, handled, log, nid, cmd_count, send, rh, handlers, inbox, remote,
                   tasks, sweeper, now, warned>>

\* the broker becomes unreachable (once in a run)
ServerDown ==
    /\ conn.server = "up"
    /\ conn.reconnects = 0
    /\ conn' = [conn EXCEPT !.server = "down"]
    /\ UNCHANGED <<iterVars, linkVars, regVars, busVars, handleVars, closers, brokerVars, pingVars, handled, log, nid, closed, cmd_count, subs, send, rh, handlers,
                   inbox, remote, tasks, sweeper, recvLoop, now, warned>>

\* does executing the command on A end in Node.add_response?
Responds(m) ==
    \/ m.type = "addresp"
    \/ m.type = "wrapper" /\ m.kind = "value" /\ m.from = nid

\* the response value a message carries
Response(m) == <<m.cid, IF m.type = "wrapper" THEN Self ELSE m.from, m.via>>

\* Node.add_response(cid, response) on the state (map, handlers, warnings)
NodeAddResponse(map, hs, w, m) ==
    LET h == GetResponseHandlerByCid(map, m.cid) IN
      IF h # NoCid
      THEN [rh |-> [hs EXCEPT ![h] = AddResponseTo(@, Response(m))], warned |-> w]
      ELSE [rh |-> hs, warned |-> w \cup {m}]

\* the exception cmd.execute(node) ends with on A, "None" when it returns:
\* the inner command raises, or the reply to another node cannot be published
ExecuteRaises(m) ==
    IF m.type = "wrapper" /\ m.kind = "raise" THEN "an Exception"
    ELSE IF m.type = "wrapper" /\ m.kind = "value" /\ m.from # nid /\ ~Online
         THEN (IF conn.pubsub THEN "ServerDisconnectedError" ELSE "NotConnectedError")
    ELSE "None"

\* a wrapper that answers every node
ReplyToAll(m) ==
    {[node |-> p[1], msg |-> Msg("addresp", m.cid, nid, p[2], "value")] :
         p \in Matches({"all"})}

\* CommandWrapper.execute, the inner command returned a value to a wrapper of
\* another node: send_no_response(AddResponse(cid, response), self.nid); these
\* are the deliveries of that publish
ReplyTo(m) ==
    {[node |-> p[1], msg |-> Msg("addresp", m.cid, nid, p[2], "value")] :
         p \in Matches({m.from})}

\* the wrapper m answers over the bus, and the publish goes through
Replies(m) == m.type = "wrapper" /\ m.kind = "value" /\ m.from # nid /\ Online

\* the arguments wrapped_error_handler passes to error_handler
ErrorHandlerArgs(cmd, e) == <<cmd, e>>

\* a worker runs cmd.execute(node): CommandWrapper.execute / AddResponse.execute;
\* the done-callback of the future calls error_handler when it raised
TaskExecute(t) ==
    /\ t \in tasks
    /\ tasks' = tasks \ {t}
    /\ handled' = IF ExecuteRaises(t.msg) # "None"
                  THEN Append(handled, ErrorHandlerArgs(t.msg, ExecuteRaises(t.msg)))
                  ELSE handled
    /\ LET r == NodeAddResponse(handlers, rh, warned, t.msg) IN
         IF Responds(t.msg)
         THEN rh' = r.rh /\ warned' = r.warned
         ELSE UNCHANGED <<rh, warned>>
    /\ remote' = IF Replies(t.msg) THEN remote \cup ReplyTo(t.msg) ELSE remote
    /\ UNCHANGED <<iterVars, linkVars, regVars, busVars, handleVars, closers, brokerVars, pingVars, conn, log, nid, closed, cmd_count, subs, send, handlers, inbox,
                   sweeper, recvLoop, now>>

\* ---------------------------------------------------------- the sweeper
Restrict(f, S) == [x \in S |-> f[x]]

\* after one handler of the snapshot: the next one, or sleep and loop
SweepAfter(snap) ==
    IF DOMAIN snap = {} THEN "check" ELSE "iter"

\* top of the loop: closed check, then the snapshot of the map
SweepSnapshot ==
    /\ sweeper.pc = "check"
    /\ closed \/ DOMAIN handlers # {}
    /\ sweeper' = IF closed THEN [sweeper EXCEPT !.pc = "exit"]
                  ELSE [sweeper EXCEPT !.pc = "iter", !.snapshot = handlers]
    /\ UNCHANGED <<iterVars, linkVars, regVars, busVars, handleVars, closers, brokerVars, pingVars, conn, handled, log, nid, closed, cmd_count, subs, send, rh, handlers, inbox, remote,
                   tasks, recvLoop, now, warned>>

\* rh.finalize() on one handler of the snapshot
SweepFinalize(c) ==
    /\ sweeper.pc = "iter"
    /\ c \in DOMAIN sweeper.snapshot
    /\ LET h == sweeper.snapshot[c]
           r == FinalizeInternal(rh[h], now)
           rest == Restrict(sweeper.snapshot, DOMAIN sweeper.snapshot \ {c})
       IN CASE r = "TypeError" ->
                 /\ sweeper' = [sweeper EXCEPT !.pc = "dead", !.cur = c]
                 /\ UNCHANGED rh
            [] r = "true" ->
                 /\ sweeper' = [sweeper EXCEPT !.pc = "remove", !.cur = c]
                 /\ rh' = [rh EXCEPT ![h].finalized = TRUE]
            [] r = "false" ->
                 /\ sweeper' = [sweeper EXCEPT !.pc = SweepAfter(rest), !.snapshot = rest]
                 /\ UNCHANGED rh
    /\ UNCHANGED <<iterVars, linkVars, regVars, busVars, handleVars, closers, brokerVars, pingVars, conn, handled, log, nid, closed, cmd_count, subs, send, handlers, inbox, remote,
                   tasks, recvLoop, now, warned>>

\* _remove_response_handler(cid, silent=True)
SweepRemove ==
    /\ sweeper.pc = "remove"
    /\ handlers' = Restrict(handlers, DOMAIN handlers \ {sweeper.cur})
    /\ LET rest == Restrict(sweeper.snapshot, DOMAIN sweeper.snapshot \ {sweeper.cur})
       IN sweeper' = [pc |-> SweepAfter(rest), cur |-> NoCid, snapshot |-> rest]
    /\ UNCHANGED <<iterVars, linkVars, regVars, busVars, handleVars, closers, brokerVars, pingVars, conn, handled, log, nid, closed, cmd_count, subs, send, rh, inbox, remote,
                   tasks, recvLoop, now, warned>>

\* ------------------------------------------------------ close, the clock
Close ==
    /\ ~closed
    /\ NodeClose
    /\ UNCHANGED <<iterVars, linkVars, regVars, busVars, handleVars, closers, brokerVars, pingVars, handled, log, nid, cmd_count, send, rh, handlers, inbox, remote,
                   tasks, sweeper, recvLoop, now, warned>>

\* Node.close, first half: a caller reads the closed event
CloseTest(t) ==
    /\ closers[t] = "idle"
    /\ closers' = [closers EXCEPT ![t] = IF closed THEN "done" ELSE "open"]
    /\ UNCHANGED <<iterVars, linkVars, regVars, busVars, handleVars, nodeVars, brokerVars, pingVars>>

\* Node.close, second half, by a caller that read the event unset: set it,
\* call the adapter's close
CloseAct(t) ==
    /\ closers[t] = "open"
    /\ closers' = [closers EXCEPT ![t] = "done"]
    /\ NodeClose
    /\ UNCHANGED <<iterVars, linkVars, regVars, busVars, handleVars, brokerVars, pingVars, handled, log, nid, cmd_count, send, rh, handlers,
                   inbox, remote, tasks, sweeper, recvLoop, now, warned>>

Tick ==
    /\ now < MaxTime
    /\ now' = now + 1
    /\ UNCHANGED <<iterVars, linkVars, regVars, busVars, handleVars, closers, brokerVars, pingVars, conn, handled, log, nid, closed, cmd_count, subs, send, rh, handlers, inbox, remote,
                   tasks, sweeper, recvLoop, warned>>

Next ==
    \/ \E s \in Slots, D \in DestChoices, t \in Timeouts, k \in SendKinds :
           SendStart(s, D, t, k)
    \/ \E s \in Slots : SendPublish(s)
    \/ \E s \in Slots : SendRaise(s)
    \/ \E s \in Slots : SendRegister(s)
    \/ \E r \in remote : RemoteExecute(r)
    \/ \E m \in inbox : RecvCommand(m)
    \/ RecvExit
    \/ \E t \in tasks : TaskExecute(t)
    \/ SweepSnapshot
    \/ \E c \in DOMAIN sweeper.snapshot : SweepFinalize(c)
    \/ SweepRemove
    \/ Close
    \/ Tick

Spec == Init /\ [][Next]_vars

\* two concurrent calls of send, and the sweeper scheduled fairly
SpecPair == InitCalls /\ [][Next]_vars
FairPair ==
    /\ SpecPair
    /\ WF_vars(SweepSnapshot)
    /\ WF_vars(\E c \in DOMAIN sweeper.snapshot : SweepFinalize(c))
    /\ WF_vars(SweepRemove)

\* Node.send alone: the callers' threads, and close
NextSend ==
    \/ \E s \in Slots, D \in DestChoices, t \in Timeouts, k \in SendKinds :
           SendStart(s, D, t, k)
    \/ \E s \in Slots : SendPublish(s)
    \/ \E s \in Slots : SendRaise(s)
    \/ \E s \in Slots : SendRegister(s)
    \/ Close
    \/ Tick

SpecSend == InitCalls /\ [][NextSend]_vars

\* the handlers a caller makes and passes to Node.send
UserHandlers == {Callback(timeout, 0) : timeout \in Timeouts}

\* a handler choice that takes the caller's handler whatever else is given
CreateResponseHandlerLenient(response_handler, response_timeout, t) ==
    [error |-> FALSE, handler |-> response_handler]

\* Node._create_response_handler, called with a handler: ValueError when a
\* timeout is given as well, else the handler
CreateResponseHandler(response_handler, response_timeout, t) ==
    IF response_timeout # None
    THEN [error |-> TRUE, handler |-> response_handler]
    ELSE [error |-> FALSE, handler |-> response_handler]

\* Node.send(cmd, D, response_handler=h, response_timeout=timeout), up to the
\* handler: _generate_cid, the wrapper, _create_response_handler
SendWithHandler(s, D, h, timeout, kind) ==
    /\ send[s].pc = "idle"
    /\ nid # NoNid
    /\ \A r \in DOMAIN send : r < s => send[r].pc # "idle"
    /\ LET g == GenerateCid(cmd_count)
           c == CreateResponseHandler(h, timeout, now)
       IN /\ cmd_count' = g.count
          /\ IF c.error
             THEN /\ send' = [send EXCEPT ![s] = [IdleSend EXCEPT !.pc = "invalid", !.cid = g.cid]]
                  /\ rh' = rh
             ELSE /\ send' = [send EXCEPT ![s] = [pc |-> "created", cid |-> g.cid,
                                                  dests |-> D, kind |-> kind, num |-> None]]
                  /\ rh' = rh @@ (g.cid :> c.handler)
    /\ UNCHANGED <<iterVars, linkVars, regVars, busVars, handleVars, closers, brokerVars, pingVars, conn, handled, log, nid, closed, subs,
                   handlers, inbox, remote, tasks, sweeper, recvLoop, now, warned>>

NextArgs ==
    \/ NextSend
    \/ \E s \in Slots, D \in DestChoices, h \in UserHandlers, t \in Timeouts, k \in SendKinds :
           SendWithHandler(s, D, h, t, k)

SpecArgs == InitCalls /\ [][NextArgs]_vars

\* ------------------------------------------- one send and its handler
\* what IConnection.send may return: a count, or None for "unknown"
NumReceivers == {None} \cup 0..MaxReceivers

\* The state in which Node.send has just returned: the handler is in the map
\* with the count n the adapter reported, j receivers hold the wrapper.
InitSweepOf(h0) ==
    /\ nid = Self
    /\ closed = FALSE
    /\ cmd_count = 1
    /\ subs = [n \in Nodes |-> IF n = "A" THEN {"A", "all"} ELSE {"B", "all", "x"}]
    /\ send = [s \in 1..1 |-> [IdleSend EXCEPT !.pc = "done", !.cid = Str(0)]]
    /\ \E n \in NumReceivers :
          /\ rh = (Str(0) :> [h0 EXCEPT !.num_receivers = n])
          /\ \E j \in 0..MaxReceivers :
                /\ n # None => j = n
                /\ remote = {[node |-> i, msg |-> Msg("wrapper", Str(0), Self, Self, "value")] :
                                i \in 1..j}
    /\ handlers = (Str(0) :> Str(0))
    /\ inbox = {}
    /\ tasks = {}
    /\ sweeper = IdleSweeper
    /\ recvLoop = RecvUntilClose(TRUE, MaxTries)
    /\ now = 0
    /\ warned = {}
    /\ conn = Connected(0)
    /\ handled = << >>
    /\ log = << >>
    /\ closers = NoClosers
    /\ BrokerIdle
    /\ PingIdle
    /\ HandleIdle
    /\ RegIdle
    /\ LinkIdle /\ IterIdle

InitSweep == \E timeout \in Timeouts : InitSweepOf(BlockUntilAllReceived(timeout, 0))

\* the same with a handler the caller passed to Node.send
InitHandlers ==
    \E timeout \in Timeouts :
        \/ InitSweepOf(Callback(timeout, 0))
        \/ timeout # None /\ InitSweepOf(UpdateTimeoutPerReceive(timeout, 0))

NextSweep ==
    \/ \E r \in remote : RemoteExecute(r)
    \/ \E m \in inbox : RecvCommand(m)
    \/ RecvExit
    \/ \E t \in tasks : TaskExecute(t)
    \/ SweepSnapshot
    \/ \E c \in DOMAIN sweeper.snapshot : SweepFinalize(c)
    \/ SweepRemove
    \/ Close
    \/ Tick

SpecSweep == InitSweep /\ [][NextSweep]_vars

SpecHandlers == InitHandlers /\ [][NextSweep]_vars

\* Node.close called from several threads (a finalizer among them)
NextClose ==
    \/ \E t \in DOMAIN closers : CloseTest(t)
    \/ \E t \in DOMAIN closers : CloseAct(t)
    \/ \E s \in Slots, D \in DestChoices, t \in Timeouts, k \in SendKinds :
           SendStart(s, D, t, k)
    \/ \E s \in Slots : SendPublish(s)
    \/ \E s \in Slots : SendRaise(s)
    \/ \E s \in Slots : SendRegister(s)
    \/ \E r \in remote : RemoteExecute(r)
    \/ \E m \in inbox : RecvCommand(m)
    \/ RecvExit
    \/ \E t \in tasks : TaskExecute(t)
    \/ SweepSnapshot
    \/ \E c \in DOMAIN sweeper.snapshot : SweepFinalize(c)
    \/ SweepRemove

SpecClose == Init /\ [][NextClose]_vars

\* ------------------------------- RedisConnection: the identity keys
\* the pipeline INCR key; EXPIRE key expire NX, run as one transaction
IncrExpire(k) == [val |-> k.val + 1, ttl |-> IF k.ttl = 0 THEN MaxExpire ELSE k.ttl]

\* SETEX key expire 1 (the heartbeat) and SET key 1 EX expire (reconnect)
SetEx == [val |-> 1, ttl |-> MaxExpire]

\* an acceptance test that takes any count
AcceptedAny(uid_code) == uid_code >= 1

\* connect: `if uid_code == 1: break`
Accepted(uid_code) == uid_code = 1

\* RedisConnection.connect, one pass of its while loop with candidate u; the
\* first pass also pings the broker and creates the pubsub.  An accepted
\* candidate becomes the uid and the heartbeat thread starts.
AdpTryUid(a, u) ==
    /\ adp[a].pc \in {"new", "connecting"}
    /\ adp[a].link
    /\ keys[u].val < MaxVal
    /\ LET k == IncrExpire(keys[u]) IN
         /\ keys' = [keys EXCEPT ![u] = k]
         /\ adp' = [adp EXCEPT ![a] =
                       IF Accepted(k.val)
                       THEN [@ EXCEPT !.pc = "connected", !.uid = u, !.hb = "loop"]
                       ELSE [@ EXCEPT !.pc = "connecting"]]
    /\ UNCHANGED <<iterVars, linkVars, regVars, busVars, handleVars, nodeVars, closers, pingVars>>

\* _refresh_uid: the loop test on _refresh_thread_close
HbTest(a) ==
    /\ adp[a].hb = "loop"
    /\ adp' = [adp EXCEPT ![a].hb = IF adp[a].stop THEN "done" ELSE "write"]
    /\ UNCHANGED <<iterVars, linkVars, regVars, busVars, handleVars, nodeVars, closers, keys, pingVars>>

\* a heartbeat that reports every failure
RefreshChatty(ad, ok) ==
    IF ok
    THEN IF ~ad.connected
         THEN [ad EXCEPT !.connected = TRUE, !.last = "Server reconnected", !.parity = ~@]
         ELSE ad
    ELSE [ad EXCEPT !.connected = FALSE, !.last = "Server disconnected", !.parity = ~@]

\* _refresh_uid, what follows the setex: the local `connected` and the warning
\* logged, if any (last: its text, parity: flips with each record logged)
Refresh(ad, ok) ==
    IF ok
    THEN IF ~ad.connected
         THEN [ad EXCEPT !.connected = TRUE, !.last = "Server reconnected", !.parity = ~@]
         ELSE ad
    ELSE IF ad.connected
         THEN [ad EXCEPT !.connected = FALSE, !.last = "Server disconnected", !.parity = ~@]
         ELSE ad

\* _refresh_uid: setex, a ConnectionError is logged; then sleep(1)
HbWrite(a) ==
    /\ adp[a].hb = "write"
    /\ keys' = IF adp[a].link THEN [keys EXCEPT ![adp[a].uid] = SetEx] ELSE keys
    /\ adp' = [adp EXCEPT ![a] = [Refresh(@, adp[a].link) EXCEPT !.hb = "loop"]]
    /\ UNCHANGED <<iterVars, linkVars, regVars, busVars, handleVars, nodeVars, closers, pingVars>>

\* RedisConnection.close under the connecting lock: nothing without a pubsub;
\* else drop the pubsub, stop the heartbeat, delete the key (a ConnectionError
\* is suppressed)
AdpClose(a) ==
    /\ adp[a].pc \in {"new", "connected", "closed"}
    /\ IF adp[a].pc = "connected"
       THEN /\ adp' = [adp EXCEPT ![a].pc = "closed", ![a].stop = TRUE]
            /\ keys' = IF adp[a].link THEN [keys EXCEPT ![adp[a].uid] = NoKey] ELSE keys
       ELSE UNCHANGED <<adp, keys>>
    /\ UNCHANGED <<iterVars, linkVars, regVars, busVars, handleVars, nodeVars, closers, pingVars>>

\* RedisConnection.reconnect: SET key 1 EX expire on a reachable broker
AdpReconnect(a) ==
    /\ adp[a].pc = "connected"
    /\ adp[a].link
    /\ keys' = [keys EXCEPT ![adp[a].uid] = SetEx]
    /\ UNCHANGED <<iterVars, linkVars, regVars, busVars, handleVars, nodeVars, closers, adp, pingVars>>

\* the broker becomes unreachable for adapter a, and reachable again
LinkDown(a) ==
    /\ adp[a].link
    /\ adp' = [adp EXCEPT ![a].link = FALSE]
    /\ UNCHANGED <<iterVars, linkVars, regVars, busVars, handleVars, nodeVars, closers, keys, pingVars>>

LinkUp(a) ==
    /\ ~adp[a].link
    /\ adp' = [adp EXCEPT ![a].link = TRUE]
    /\ UNCHANGED <<iterVars, linkVars, regVars, busVars, handleVars, nodeVars, closers, keys, pingVars>>

\* the heartbeat of a runs (period 1 s) and reaches the broker
Beating(a) == adp[a].pc = "connected" /\ adp[a].link /\ adp[a].hb \in {"loop", "write"}

\* one tick of the broker's clock: every TTL goes down, a key at 0 is gone.
\* A key whose owner's heartbeat is beating is rewritten before it runs out.
KeyTick ==
    /\ \E u \in Uids : keys[u].ttl > 0
    /\ \A a \in Adapters : Beating(a) => keys[adp[a].uid].ttl # 1
    /\ keys' = [u \in Uids |-> IF keys[u].ttl <= 1 THEN NoKey
                                ELSE [keys[u] EXCEPT !.ttl = @ - 1]]
    /\ UNCHANGED <<iterVars, linkVars, regVars, busVars, handleVars, nodeVars, closers, adp, pingVars>>

\* adapters that connect and close on a broker they always reach
NextConnect ==
    \/ \E a \in Adapters, u \in Uids : AdpTryUid(a, u)
    \/ \E a \in Adapters : HbTest(a)
    \/ \E a \in Adapters : HbWrite(a)
    \/ \E a \in Adapters : AdpClose(a)
    \/ KeyTick

SpecConnect == Init /\ [][NextConnect]_vars

\* the same with outages and reconnect()
NextUid ==
    \/ NextConnect
    \/ \E a \in Adapters : AdpReconnect(a)
    \/ \E a \in Adapters : LinkDown(a)
    \/ \E a \in Adapters : LinkUp(a)

SpecUid == Init /\ [][NextUid]_vars

\* ------------------------------------- recv_until_close and its errors
\* what another node may have published to A's channel: wrapped commands that
\* return a value, return NoResponse or raise, and data that does not deserialize
RecvChoices ==
    {Msg("wrapper", Str(0), "B", Self, k) : k \in {"value", "noresp", "raise"}}
    \cup {Msg("raw", NoCid, "B", Self, e) :
              e \in {"InvalidFormatError", "CommandNotRegisteredError"}}

\* a connected node whose recv_until_close has just started, with the
\* arguments of the call and the data waiting for it
InitRecvWith(choices) ==
    /\ nid = Self
    /\ closed = FALSE
    /\ cmd_count = 0
    /\ subs = [n \in Nodes |-> IF n = "A" THEN {"A", "all"} ELSE {"B", "all", "x"}]
    /\ send = [s \in 1..1 |-> IdleSend]
    /\ rh = << >>
    /\ handlers = << >>
    /\ inbox \in SUBSET choices
    /\ remote = {}
    /\ tasks = {}
    /\ sweeper = IdleSweeper
    /\ \E c \in BOOLEAN, t \in 0..MaxTries : recvLoop = RecvUntilClose(c, t)
    /\ now = 0
    /\ warned = {}
    /\ \E f \in 0..MaxFails : conn = Connected(f)
    /\ handled = << >>
    /\ log = << >>
    /\ closers = NoClosers
    /\ BrokerIdle
    /\ PingIdle
    /\ HandleIdle
    /\ RegIdle
    /\ LinkIdle /\ IterIdle

InitRecv == InitRecvWith(RecvChoices)

\* wrappers of B and wrappers the node sent to itself
WrapChoices ==
    {Msg("wrapper", Str(0), f, Self, k) : f \in Nodes, k \in {"value", "noresp", "raise"}}

InitWrap == InitRecvWith(WrapChoices)

NextRecv ==
    \/ \E m \in inbox : RecvCommand(m)
    \/ \E m \in inbox : RecvBadData(m)
    \/ RecvDisconnected
    \/ ReconnectAttempt
    \/ ReconnectExhausted
    \/ RecvExit
    \/ \E t \in tasks : TaskExecute(t)
    \/ ServerDown
    \/ Close

SpecRecv == InitRecv /\ [][NextRecv]_vars

\* the loop and its workers on well-formed data
NextWrap ==
    \/ \E m \in inbox : RecvCommand(m)
    \/ RecvExit
    \/ \E t \in tasks : TaskExecute(t)
    \/ ServerDown
    \/ Close

SpecWrap == InitWrap /\ [][NextWrap]_vars

\* ------------------------------------------------- connect and close
ConnectWarning == <<"warning", "connection already connected or closed">>

\* Node.connect(send_only): a warning when _nid is set, else adapter.connect
\* (ConnectionFailedError when the broker is down), the joins, the sweeper
NodeConnect(send_only) ==
    /\ IF nid # NoNid
       THEN /\ Len(log) < MaxLog
            /\ log' = Append(log, ConnectWarning)
            /\ UNCHANGED <<nid, conn, subs, sweeper>>
       ELSE IF conn.server = "down"
       THEN UNCHANGED <<nid, conn, subs, sweeper, log>>
       ELSE /\ nid' = Self
            /\ conn' = [conn EXCEPT !.pubsub = TRUE]
            /\ subs' = [subs EXCEPT ![Self] = IF send_only THEN {Self} ELSE {Self, "all"}]
            /\ sweeper' = IdleSweeper
            /\ UNCHANGED log
    /\ UNCHANGED <<iterVars, linkVars, regVars, busVars, handleVars, closers, brokerVars, pingVars, handled, closed, cmd_count, send, rh, handlers, inbox, remote,
                   tasks, recvLoop, now, warned>>

\* the broker comes back without the node having tried to reconnect
ServerUp ==
    /\ conn.server = "down"
    /\ conn' = [conn EXCEPT !.server = "up"]
    /\ UNCHANGED <<iterVars, linkVars, regVars, busVars, handleVars, closers, brokerVars, pingVars, handled, log, nid, closed, cmd_count, subs, send, rh, handlers,
                   inbox, remote, tasks, sweeper, recvLoop, now, warned>>

\* a node that has just been constructed: no nid, no sweeper, adapter not connected
InitLife ==
    /\ nid = NoNid
    /\ closed = FALSE
    /\ cmd_count = 0
    /\ subs = [n \in Nodes |-> IF n = "A" THEN {} ELSE {"B", "all", "x"}]
    /\ send = [s \in 1..MaxSends |-> IdleSend]
    /\ rh = << >>
    /\ handlers = << >>
    /\ inbox = {}
    /\ remote = {}
    /\ tasks = {}
    /\ sweeper = [IdleSweeper EXCEPT !.pc = "none"]
    /\ recvLoop = RecvUntilClose(TRUE, MaxTries)
    /\ now = 0
    /\ warned = {}
    /\ conn = [Connected(0) EXCEPT !.pubsub = FALSE]
    /\ handled = << >>
    /\ log = << >>
    /\ closers = NoClosers
    /\ BrokerIdle
    /\ PingIdle
    /\ HandleIdle
    /\ RegIdle
    /\ LinkIdle /\ IterIdle

NextLife ==
    \/ \E so \in BOOLEAN : NodeConnect(so)
    \/ Close
    \/ ServerDown
    \/ ServerUp
    \/ Next

SpecLife == InitLife /\ [][NextLife]_vars

\* ------------------------------------ Node.connect, statement by statement
\* connect(send_only), called by one thread at a time: the test of _nid and
\* the warning, else self._nid = self._connection.connect(), which raises
\* ConnectionFailedError when the broker is unreachable
ConnectNid(send_only) ==
    /\ connecting.pc \in {"idle", "done", "warned", "raised"}
    /\ IF nid # NoNid
       THEN /\ Len(log) < MaxLog
            /\ log' = Append(log, ConnectWarning)
            /\ connecting' = [connecting EXCEPT !.pc = "warned"]
            /\ UNCHANGED <<nid, conn>>
       ELSE IF conn.server = "down"
       THEN /\ connecting' = [connecting EXCEPT !.pc = "raised", !.send_only = send_only]
            /\ UNCHANGED <<nid, conn, log>>
       ELSE /\ nid' = Self
            /\ conn' = [conn EXCEPT !.pubsub = TRUE]
            /\ connecting' = [connecting EXCEPT !.pc = "join_nid", !.send_only = send_only,
                                                !.connects = @ + 1]
            /\ UNCHANGED log
    /\ UNCHANGED <<iterVars, regVars, busVars, handleVars, closers, brokerVars, pingVars, handled, closed,
                   cmd_count, subs, send, rh, handlers, inbox, remote, tasks, sweeper,
                   recvLoop, now, warned>>

\* a connect that goes on to join "all" whatever send_only says
ConnectJoinEvery(name) ==
    /\ connecting.pc = name
    /\ IF Online
       THEN /\ subs' = [subs EXCEPT ![Self] =
                            @ \cup {IF name = "join_nid" THEN nid ELSE "all"}]
            /\ connecting' = [connecting EXCEPT
                    !.pc = IF name = "join_nid" THEN "join_all" ELSE "start",
                    !.joined = Append(@, IF name = "join_nid" THEN nid ELSE "all")]
       ELSE /\ connecting' = [connecting EXCEPT !.pc = "raised"]
            /\ UNCHANGED subs
    /\ UNCHANGED <<iterVars, regVars, busVars, handleVars, closers, brokerVars, pingVars, conn, handled, log,
                   nid, closed, cmd_count, send, rh, handlers, inbox, remote, tasks,
                   sweeper, recvLoop, now, warned>>

\* connect: self.join(self._nid), and self.join("all") `if not send_only`; a
\* join on a closed adapter or an unreachable broker raises and ends the call
ConnectJoin(name) ==
    /\ connecting.pc = name
    /\ IF Online
       THEN /\ subs' = [subs EXCEPT ![Self] =
                            @ \cup {IF name = "join_nid" THEN nid ELSE "all"}]
            /\ connecting' = [connecting EXCEPT
                    !.pc = IF name = "join_nid" /\ ~connecting.send_only
                           THEN "join_all" ELSE "start",
                    !.joined = Append(@, IF name = "join_nid" THEN nid ELSE "all")]
       ELSE /\ connecting' = [connecting EXCEPT !.pc = "raised"]
            /\ UNCHANGED subs
    /\ UNCHANGED <<iterVars, regVars, busVars, handleVars, closers, brokerVars, pingVars, conn, handled, log,
                   nid, closed, cmd_count, send, rh, handlers, inbox, remote, tasks,
                   sweeper, recvLoop, now, warned>>

\* connect: the sweeper thread is created and started, connect returns
ConnectSweeper ==
    /\ connecting.pc = "start"
    /\ sweeper' = IdleSweeper
    /\ connecting' = [connecting EXCEPT !.pc = "done", !.started = @ + 1]
    /\ UNCHANGED <<iterVars, regVars, busVars, handleVars, closers, brokerVars, pingVars, conn, handled, log,
                   nid, closed, cmd_count, subs, send, rh, handlers, inbox, remote, tasks,
                   recvLoop, now, warned>>

\* a fresh node, one thread that calls connect, the broker coming and going,
\* and everything the node does once connected
NextLink ==
    \/ \E so \in BOOLEAN : ConnectNid(so)
    \/ \E name \in {"join_nid", "join_all"} : ConnectJoin(name)
    \/ ConnectSweeper
    \/ ServerDown
    \/ ServerUp
    \/ Next

SpecLink == InitLife /\ [][NextLink]_vars

\* ------------------------------------------------------------- the claims
\* the cids handed out so far, by call
Started == {s \in Slots : send[s].pc # "idle"}
\* the node is open and nothing of the send under cid c is still on its way
Quiet(c) ==
    /\ ~closed
    /\ \E s \in Slots : send[s].cid = c /\ send[s].pc = "done"
    /\ \A m \in inbox : m.cid # c
    /\ \A r \in remote : r.msg.cid # c
    /\ \A t \in tasks : t.msg.cid # c
Dropped(c) == {m \in warned : m.cid = c}

\* C1 as stated: once every receiver of a send has answered, the handler holds
\* as many results as the publish reported receivers, under every interleaving.
C1_AsStated ==
    \A c \in DOMAIN rh : Quiet(c) /\ rh[c].finalized
        => Len(rh[c].results) = rh[c].num_receivers

\* C1, amended: every value returned for a send is either appended to the handler
\* registered under its cid or dropped with a warning because no handler was in
\* the map under that cid when it arrived; once all receivers have answered a
\* node that is still open, the results and the dropped values together number
\* num_receivers.
C1_Routing ==
    \A c \in DOMAIN rh :
        /\ \A i \in 1..Len(rh[c].results) : rh[c].results[i][1] = c
        /\ Quiet(c) =>
             Len(rh[c].results) + Cardinality(Dropped(c)) = rh[c].num_receivers

\* C1 witness: a finalised handler that got the answers of both its receivers
C1_Witness ==
    \E c \in DOMAIN rh : /\ Quiet(c) /\ rh[c].finalized
                         /\ rh[c].num_receivers = 2
                         /\ Len(rh[c].results) = 2

\* the worker step that handles message m ends in Node.add_response
Handled(m) ==
    /\ Responds(m)
    /\ \E t \in tasks : t.msg = m /\ t \notin tasks'

C6_UniqueCids ==
    /\ \A s, r \in Started : s # r => send[s].cid # send[r].cid
    /\ {send[s].cid : s \in Started} = {Str(i) : i \in 0..(cmd_count - 1)}
    /\ Cardinality(Started) = cmd_count

\* C6 witness: two sends got their cids, one of them raised afterwards
C6_Witness ==
    \E s, r \in Started : /\ send[s].pc = "raised"
                          /\ send[r].pc = "done"
                          /\ send[s].cid = Str(0)
                          /\ send[r].cid = Str(1)

\* ResponseHandlerBase.get(block=True): the list, once the handler is finalised
Get(h) == IF h.finalized THEN h.results ELSE << >>

\* the handler under c has the answers of all its k >= 1 receivers
AllReceived(c) ==
    /\ rh[c].num_receivers >= 1
    /\ rh[c].num_received_results >= rh[c].num_receivers

Degenerate(h) == h.num_receivers = None /\ h.timeout_at = None

\* C4: finalize() on a handler with neither num_receivers nor a timeout returns
\* true, and the sweeper removes the handler in that sweep.
C4_DegenerateDropped ==
    [][\A c \in DOMAIN rh :
          /\ (Degenerate(rh[c]) /\ SweepFinalize(c)) =>
                 rh'[c].finalized /\ sweeper'.pc = "remove"
          /\ (Degenerate(rh[c]) /\ SweepRemove /\ sweeper.cur = c) =>
                 c \notin DOMAIN handlers']_vars

\* send has returned the handler under c, it has a timeout and the deadline passed
Expired(c) ==
    /\ c \in DOMAIN handlers
    /\ rh[c].timeout_at # None
    /\ now > rh[c].timeout_at

\* C3: a handler with a timeout that send returned is eventually finalised once
\* its deadline has passed (unless the node is closed first).
C3_EventuallyFinalized ==
    \A c \in {Str(i) : i \in 0..(MaxCalls - 1)} :
        (Expired(c) /\ ~closed) ~> (closed \/ (c \in DOMAIN rh /\ rh[c].finalized))

\* the exception object the claim expects error_handler to receive
CommandExecutionError(cmd, e) == [type |-> "CommandExecutionError", cmd |-> cmd, e |-> e]

\* C7: when execute raises in a worker of recv_until_close, the loop is left as
\* it is and error_handler is called once, with one argument: a
\* CommandExecutionError wrapping the command and the raised exception.
C7_ErrorHandler ==
    [][\A t \in tasks :
          (TaskExecute(t) /\ ExecuteRaises(t.msg) # "None") =>
              /\ recvLoop' = recvLoop
              /\ Len(handled') = Len(handled) + 1
              /\ Len(handled'[Len(handled')]) = 1
              /\ handled'[Len(handled')][1] =
                     CommandExecutionError(t.msg, ExecuteRaises(t.msg))]_vars

\* C8: when Node.recv raises InvalidFormatError or CommandNotRegisteredError in
\* recv_until_close, the error is logged, the loop keeps running and the node
\* stays open.
C8_BadDataSurvived ==
    [][\A m \in inbox :
          RecvBadData(m) =>
              /\ recvLoop'.pc = "loop"
              /\ recvLoop'.error = "None"
              /\ closed' = closed
              /\ Len(log') = Len(log) + 1]_vars

\* C9: with reconnect() failing f times and then succeeding, the loop resumes
\* after f+1 attempts when f < reconnect_max_tries; otherwise the reconnect loop
\* ends after reconnect_max_tries attempts by raising ServerDisconnectedError.
C9_Reconnect ==
    [][/\ (ReconnectAttempt /\ recvLoop'.pc = "loop") =>
              /\ conn'.reconnects = conn.f + 1
              /\ conn.f < recvLoop.max_tries
       /\ ReconnectExhausted =>
              /\ recvLoop'.error = "ServerDisconnectedError"
              /\ conn.reconnects = recvLoop.max_tries
              /\ conn.f >= recvLoop.max_tries]_vars

\* C10: a connect() on a node that has a nid changes nothing and logs the
\* warning; a connect() after close() neither connects the adapter, nor joins a
\* channel, nor starts a sweeper, whether or not the node was connected before.
C10_ConnectOnce ==
    [][\A so \in BOOLEAN :
          /\ (NodeConnect(so) /\ nid # NoNid) =>
                 /\ UNCHANGED <<nid, conn, subs, sweeper>>
                 /\ log' = Append(log, ConnectWarning)
          /\ (NodeConnect(so) /\ closed) =>
                 UNCHANGED <<nid, conn, subs, sweeper>>]_vars

\* C11: over any number of sequential or concurrent close() calls the closed
\* event is set by the first one and the adapter's close() is invoked exactly
\* once.
C11_CloseOnce ==
    /\ conn.closes <= 1
    /\ (\E t \in DOMAIN closers : closers[t] = "done") => (closed /\ conn.closes = 1)

\* ------------------------------- RedisConnection.send, the liveness ping
\* the waits the constructor can be given: none, or one that can run out
SendTimeouts == {None, 1}

InitPing ==
    /\ NodeInit(MaxSends)
    /\ BrokerIdle
    /\ asend = [s \in 1..MaxSenders |-> IdleCall]
    /\ \E r \in BOOLEAN, t \in SendTimeouts : pong = NoPings(r, t)
    /\ fnmap = NoWrapper
    /\ HandleIdle
    /\ RegIdle
    /\ LinkIdle /\ IterIdle

\* atomicmethod.__get__, up to the test `obj in self._instance_fn_map`
AtomicGet(s) ==
    /\ asend[s].pc = "idle"
    /\ asend' = [asend EXCEPT ![s] =
                   IF fnmap.wrapper # 0
                   THEN [@ EXCEPT !.pc = "got", !.lock = fnmap.wrapper]
                   ELSE [@ EXCEPT !.pc = "miss"]]
    /\ UNCHANGED <<iterVars, linkVars, regVars, busVars, handleVars, nodeVars, closers, brokerVars, pong, fnmap>>

\* atomicmethod.__get__, the rest: a new RLock and wrapper, stored in the map
\* (the lock is named after the caller that made it)
AtomicInstall(s) ==
    /\ asend[s].pc = "miss"
    /\ asend' = [asend EXCEPT ![s].pc = "got", ![s].lock = s]
    /\ fnmap' = [fnmap EXCEPT !.wrapper = s]
    /\ UNCHANGED <<iterVars, linkVars, regVars, busVars, handleVars, nodeVars, closers, brokerVars, pong>>

\* wrapper: `with lock`, then send: clear the event and PING
AdpSendPing(s) ==
    /\ asend[s].pc = "got"
    /\ asend[s].lock \notin fnmap.held
    /\ fnmap' = [fnmap EXCEPT !.held = @ \cup {asend[s].lock}]
    /\ pong' = [pong EXCEPT !.event = FALSE, !.inflight = Append(@, s)]
    /\ asend' = [asend EXCEPT ![s].pc = "waiting"]
    /\ UNCHANGED <<iterVars, linkVars, regVars, busVars, handleVars, nodeVars, closers, brokerVars>>

\* recv on another thread reads the oldest pong carrying _ping_msg and sets
\* the event
AdpRecvPong ==
    /\ pong.recv
    /\ pong.inflight # << >>
    /\ pong' = [pong EXCEPT !.event = TRUE, !.last = Head(pong.inflight),
                            !.inflight = Tail(@)]
    /\ UNCHANGED <<iterVars, linkVars, regVars, busVars, handleVars, nodeVars, closers, brokerVars, asend, fnmap>>

\* send: the wait found the event set; publish, return, release the lock
AdpSendPublish(s) ==
    /\ asend[s].pc = "waiting"
    /\ pong.event
    /\ asend' = [asend EXCEPT ![s].pc = "published", ![s].by = pong.last]
    /\ fnmap' = [fnmap EXCEPT !.held = @ \ {asend[s].lock}]
    /\ UNCHANGED <<iterVars, linkVars, regVars, busVars, handleVars, nodeVars, closers, brokerVars, pong>>

\* send: the wait ran out with the event unset; ServerDisconnectedError
AdpSendTimeout(s) ==
    /\ asend[s].pc = "waiting"
    /\ pong.timeout # None
    /\ ~pong.event
    /\ asend' = [asend EXCEPT ![s].pc = "raised"]
    /\ fnmap' = [fnmap EXCEPT !.held = @ \ {asend[s].lock}]
    /\ UNCHANGED <<iterVars, linkVars, regVars, busVars, handleVars, nodeVars, closers, brokerVars, pong>>

NextPing ==
    \/ \E s \in 1..MaxSenders : AtomicGet(s)
    \/ \E s \in 1..MaxSenders : AtomicInstall(s)
    \/ \E s \in 1..MaxSenders : AdpSendPing(s)
    \/ AdpRecvPong
    \/ \E s \in 1..MaxSenders : AdpSendPublish(s)
    \/ \E s \in 1..MaxSenders : AdpSendTimeout(s)

SpecPing == InitPing /\ [][NextPing]_vars

\* every thread keeps running: each step that can be taken is taken
FairPing ==
    /\ SpecPing
    /\ \A s \in 1..MaxSenders :
           /\ WF_vars(AtomicGet(s))
           /\ WF_vars(AtomicInstall(s))
           /\ WF_vars(AdpSendPing(s))
           /\ WF_vars(AdpSendPublish(s))
           /\ WF_vars(AdpSendTimeout(s))
    /\ WF_vars(AdpRecvPong)

\* --------------------------- a response handler, through its own methods
\* a handler made by the caller, before Node.send has seen it
InitHandle ==
    /\ NodeInit(MaxSends)
    /\ BrokerIdle
    /\ PingIdle
    /\ \E timeout \in Timeouts : hnd = Handle(BlockUntilAllReceived(timeout, 0))
    /\ reader = IdleReader
    /\ calls = NoCalls
    /\ BusIdle
    /\ RegIdle
    /\ LinkIdle /\ IterIdle

\* ResponseHandlerBase.add_response, the semaphore included; the responses
\* are numbered in the order of their arrival
HAddResponse ==
    /\ hnd.num_received_results < MaxResponses
    /\ hnd' = [AddResponseTo(hnd, hnd.num_received_results + 1)
                  EXCEPT !.iter_semaphore = @ + 1]
    /\ UNCHANGED <<iterVars, linkVars, regVars, busVars, nodeVars, closers, brokerVars, pingVars, reader, calls>>

\* ResponseHandlerBase.set_num_receivers
HSetNumReceivers(n) ==
    /\ n # hnd.num_receivers
    /\ hnd' = [hnd EXCEPT !.num_receivers = n]
    /\ UNCHANGED <<iterVars, linkVars, regVars, busVars, nodeVars, closers, brokerVars, pingVars, reader, calls>>

\* ResponseHandlerBase.finalize: what it returns (or raises) is kept, and the
\* number of responses present when the latch was first set
HFinalize ==
    LET r == FinalizeInternal(hnd, now) IN
      /\ hnd' = IF r = "true" THEN [hnd EXCEPT !.finalized = TRUE] ELSE hnd
      /\ calls' = [calls EXCEPT !.finalize = r,
                                !.final_count = IF r = "true" /\ ~hnd.finalized
                                                THEN hnd.num_received_results ELSE @]
      /\ UNCHANGED <<iterVars, linkVars, regVars, busVars, nodeVars, closers, brokerVars, pingVars, reader>>

\* get: the test of _is_next_executed and the warning; mode "timed" is
\* block=False or a finite timeout, "forever" is block=True, timeout=None
HGetStart(mode) ==
    /\ calls.get # "waiting"
    /\ calls' = [calls EXCEPT !.get = "waiting", !.mode = mode,
                              !.warned = hnd.is_next_executed, !.ret = NoResult]
    /\ UNCHANGED <<iterVars, linkVars, regVars, busVars, nodeVars, closers, brokerVars, pingVars, hnd, reader>>

\* a get that hands out the queue whether or not the handler is finalised
HandleGetAlways(h) == [null |-> FALSE, list |-> h.results]

\* get, after the wait: None if the event is not set, else list(self._results)
HandleGet(h) ==
    IF h.finalized THEN [null |-> FALSE, list |-> h.results] ELSE NoResult

\* get: _finalized.wait(timeout) returns, then the return statement
HGetReturn ==
    /\ calls.get = "waiting"
    /\ hnd.finalized \/ calls.mode = "timed"
    /\ calls' = [calls EXCEPT !.get = "returned", !.ret = HandleGet(hnd)]
    /\ UNCHANGED <<iterVars, linkVars, regVars, busVars, nodeVars, closers, brokerVars, pingVars, hnd, reader>>

\* __next__: set _is_next_executed
HNextStart ==
    /\ reader.pc = "idle"
    /\ hnd' = [hnd EXCEPT !.is_next_executed = TRUE]
    /\ reader' = [reader EXCEPT !.pc = "len"]
    /\ UNCHANGED <<iterVars, linkVars, regVars, busVars, nodeVars, closers, brokerVars, pingVars, calls>>

\* __should_stop_iteration: len(self._results) under the lock
HNextLen ==
    /\ reader.pc = "len"
    /\ reader' = [reader EXCEPT !.pc = "fin", !.num_results = Len(hnd.results)]
    /\ UNCHANGED <<iterVars, linkVars, regVars, busVars, nodeVars, closers, brokerVars, pingVars, hnd, calls>>

\* __should_stop_iteration: `if self.is_finalized and num_results == 0`
HNextFin ==
    /\ reader.pc = "fin"
    /\ reader' = [reader EXCEPT !.pc = IF hnd.finalized /\ reader.num_results = 0
                                       THEN "stopped" ELSE "acquire"]
    /\ UNCHANGED <<iterVars, linkVars, regVars, busVars, nodeVars, closers, brokerVars, pingVars, hnd, calls>>

\* __next__: _iter_semaphore.acquire(timeout) succeeds, or times out and the
\* loop tests for the end again
HNextAcquire ==
    /\ reader.pc = "acquire"
    /\ IF hnd.iter_semaphore > 0
       THEN /\ hnd' = [hnd EXCEPT !.iter_semaphore = @ - 1]
            /\ reader' = [reader EXCEPT !.pc = "pop"]
       ELSE /\ hnd' = hnd
            /\ reader' = [reader EXCEPT !.pc = "len"]
    /\ UNCHANGED <<iterVars, linkVars, regVars, busVars, nodeVars, closers, brokerVars, pingVars, calls>>

\* __next__: popleft under the lock, the value is returned
HNextPop ==
    /\ reader.pc = "pop"
    /\ hnd' = [hnd EXCEPT !.results = Tail(@)]
    /\ reader' = [reader EXCEPT !.pc = "idle", !.yielded = Append(@, Head(hnd.results))]
    /\ UNCHANGED <<iterVars, linkVars, regVars, busVars, nodeVars, closers, brokerVars, pingVars, calls>>

NextHandle ==
    \/ HAddResponse
    \/ \E n \in NumReceivers : HSetNumReceivers(n)
    \/ HFinalize
    \/ \E mode \in {"timed", "forever"} : HGetStart(mode)
    \/ HGetReturn
    \/ HNextStart
    \/ HNextLen
    \/ HNextFin
    \/ HNextAcquire
    \/ HNextPop
    \/ Tick

SpecHandle == InitHandle /\ [][NextHandle]_vars

\* ----------- add_response and __next__ under _results_lock, by statement
\* a handler Node.send has registered: n receivers, a timeout of 0
InitIter ==
    /\ NodeInit(MaxSends)
    /\ BrokerIdle
    /\ PingIdle
    /\ \E n \in 0..MaxReceivers :
           hnd = [Handle(BlockUntilAllReceived(0, 0)) EXCEPT !.num_receivers = n]
    /\ reader = IdleReader
    /\ calls = NoCalls
    /\ BusIdle
    /\ RegIdle
    /\ LinkIdle
    /\ IterIdle

\* add_response: `with self._results_lock`, entered by thread j
AddLock(j) ==
    /\ iterating.adders[j] = "idle"
    /\ iterating.lock = 0
    /\ iterating.completed
         + Cardinality({k \in 1..MaxAdders : iterating.adders[k] # "idle"}) < MaxResponses
    /\ iterating' = [iterating EXCEPT !.lock = j, !.adders[j] = "append"]
    /\ UNCHANGED <<linkVars, regVars, busVars, nodeVars, closers, brokerVars, pingVars,
                   handleVars>>

\* add_response: self._results.append(response)
AddAppend(j) ==
    /\ iterating.adders[j] = "append"
    /\ hnd' = [hnd EXCEPT !.results = Append(@, j)]
    /\ iterating' = [iterating EXCEPT !.adders[j] = "release"]
    /\ UNCHANGED <<linkVars, regVars, busVars, nodeVars, closers, brokerVars, pingVars,
                   reader, calls>>

\* add_response: self._iter_semaphore.release()
AddRelease(j) ==
    /\ iterating.adders[j] = "release"
    /\ hnd' = [hnd EXCEPT !.iter_semaphore = @ + 1]
    /\ iterating' = [iterating EXCEPT !.adders[j] = "count"]
    /\ UNCHANGED <<linkVars, regVars, busVars, nodeVars, closers, brokerVars, pingVars,
                   reader, calls>>

\* add_response: self._num_received_results += 1
AddCount(j) ==
    /\ iterating.adders[j] = "count"
    /\ hnd' = [hnd EXCEPT !.num_received_results = @ + 1]
    /\ iterating' = [iterating EXCEPT !.adders[j] = "unlock"]
    /\ UNCHANGED <<linkVars, regVars, busVars, nodeVars, closers, brokerVars, pingVars,
                   reader, calls>>

\* add_response: the lock is released and the call returns
AddUnlock(j) ==
    /\ iterating.adders[j] = "unlock"
    /\ iterating' = [iterating EXCEPT !.lock = 0, !.adders[j] = "idle",
                                      !.completed = @ + 1]
    /\ UNCHANGED <<linkVars, regVars, busVars, nodeVars, closers, brokerVars, pingVars,
                   handleVars>>

\* finalize(): finalize_internal reads num_received_results under the lock
IterFinalize ==
    /\ iterating.lock = 0
    /\ HFinalize
    /\ UNCHANGED iterating

\* __next__ in thread i: set _is_next_executed
IterStart(i) ==
    /\ iterating.readers[i].pc = "idle"
    /\ Len(iterating.readers[i].yielded) < MaxResponses
    /\ hnd' = [hnd EXCEPT !.is_next_executed = TRUE]
    /\ iterating' = [iterating EXCEPT !.readers[i].pc = "len"]
    /\ UNCHANGED <<linkVars, regVars, busVars, nodeVars, closers, brokerVars, pingVars,
                   reader, calls>>

\* __should_stop_iteration: len(self._results) under the lock
IterLen(i) ==
    /\ iterating.readers[i].pc = "len"
    /\ iterating.lock = 0
    /\ iterating' = [iterating EXCEPT !.readers[i].pc = "fin",
                                      !.readers[i].num_results = Len(hnd.results)]
    /\ UNCHANGED <<linkVars, regVars, busVars, nodeVars, closers, brokerVars, pingVars,
                   handleVars>>

\* __should_stop_iteration: `if self.is_finalized and num_results == 0`
IterFin(i) ==
    /\ iterating.readers[i].pc = "fin"
    /\ iterating' = [iterating EXCEPT !.readers[i].pc =
                         IF hnd.finalized /\ iterating.readers[i].num_results = 0
                         THEN "stopped" ELSE "acquire"]
    /\ UNCHANGED <<linkVars, regVars, busVars, nodeVars, closers, brokerVars, pingVars,
                   handleVars>>

\* a reader that goes on to popleft when the acquire timed out
IterAcquireAnyway(i) ==
    /\ iterating.readers[i].pc = "acquire"
    /\ hnd' = [hnd EXCEPT !.iter_semaphore = IF @ > 0 THEN @ - 1 ELSE @]
    /\ iterating' = [iterating EXCEPT !.readers[i].pc = "pop"]
    /\ UNCHANGED <<linkVars, regVars, busVars, nodeVars, closers, brokerVars, pingVars,
                   reader, calls>>

\* __next__: _iter_semaphore.acquire(timeout), taken without the lock: it
\* succeeds, or times out and the loop tests for the end again
IterAcquire(i) ==
    /\ iterating.readers[i].pc = "acquire"
    /\ IF hnd.iter_semaphore > 0
       THEN /\ hnd' = [hnd EXCEPT !.iter_semaphore = @ - 1]
            /\ iterating' = [iterating EXCEPT !.readers[i].pc = "pop"]
       ELSE /\ hnd' = hnd
            /\ iterating' = [iterating EXCEPT !.readers[i].pc = "len"]
    /\ UNCHANGED <<linkVars, regVars, busVars, nodeVars, closers, brokerVars, pingVars,
                   reader, calls>>

\* __next__: popleft under the lock; on an empty deque it raises IndexError
IterPop(i) ==
    /\ iterating.readers[i].pc = "pop"
    /\ iterating.lock = 0
    /\ IF hnd.results = << >>
       THEN /\ iterating' = [iterating EXCEPT !.readers[i].pc = "IndexError"]
            /\ hnd' = hnd
       ELSE /\ hnd' = [hnd EXCEPT !.results = Tail(@)]
            /\ iterating' = [iterating EXCEPT
                    !.readers[i].pc = "idle",
                    !.readers[i].yielded = Append(@, Head(hnd.results))]
    /\ UNCHANGED <<linkVars, regVars, busVars, nodeVars, closers, brokerVars, pingVars,
                   reader, calls>>

NextIter ==
    \/ \E j \in 1..MaxAdders : AddLock(j)
    \/ \E j \in 1..MaxAdders : AddAppend(j)
    \/ \E j \in 1..MaxAdders : AddRelease(j)
    \/ \E j \in 1..MaxAdders : AddCount(j)
    \/ \E j \in 1..MaxAdders : AddUnlock(j)
    \/ IterFinalize
    \/ \E i \in 1..MaxReaders : IterStart(i)
    \/ \E i \in 1..MaxReaders : IterLen(i)
    \/ \E i \in 1..MaxReaders : IterFin(i)
    \/ \E i \in 1..MaxReaders : IterAcquire(i)
    \/ \E i \in 1..MaxReaders : IterPop(i)
    \/ Tick

SpecIter == InitIter /\ [][NextIter]_vars

\* ------------------------------- channels, topics and the broker's globs
\* the channel names in use; "*" is a name like any other to join, leave and
\* send, none of which rejects it (_verify_name rejects "|" only)
Names == {"B", "all", "x", "*"}
\* the names joined and left after connect
JoinNames == {"x", "*"}

\* a name as the characters it is made of
Spell(name) ==
    CASE name = "all" -> <<"a", "l", "l">>
      [] name = "a|b" -> <<"a", "|", "b">>
      [] OTHER -> <<name>>

RECURSIVE Join(_)
\* send: '|' + '|'.join(destinations) + '|'
Join(ds) == IF ds = << >> THEN <<"|">> ELSE <<"|">> \o Spell(Head(ds)) \o Join(Tail(ds))

\* join / leave: the pattern f"*|{name}|*"
Pattern(name) == <<"*", "|">> \o Spell(name) \o <<"|", "*">>

RECURSIVE GlobMatch(_, _)
\* the broker's glob match of a pattern against a topic: "*" stands for any run
\* of characters, "?" for one
GlobMatch(p, t) ==
    IF p = << >> THEN t = << >>
    ELSE IF Head(p) = "*"
         THEN GlobMatch(Tail(p), t) \/ (t # << >> /\ GlobMatch(p, Tail(t)))
         ELSE /\ t # << >>
              /\ Head(p) = "?" \/ Head(p) = Head(t)
              /\ GlobMatch(Tail(p), Tail(t))

\* PUBLISH: a subscriber gets one pmessage per pattern of its that matches
Deliveries(ds) ==
    [n \in Nodes |-> Cardinality({c \in subs[n] : GlobMatch(Pattern(c), Join(ds))})]

Range(f) == {f[i] : i \in DOMAIN f}
Lists(S) == UNION {[1..k -> S] : k \in 0..MaxDests}
\* the orders in which a set can be iterated
Orders(S) == {f \in [1..Cardinality(S) -> S] : Range(f) = S}

\* what a caller may pass as destinations: a string, or a list of names
Destinations ==
    {[str |-> TRUE, names |-> <<n>>] : n \in Names}
    \cup {[str |-> FALSE, names |-> l] : l \in Lists(Names)}

\* Node.join / RedisConnection.join: psubscribe
BusJoin(n, name) ==
    /\ name \notin subs[n]
    /\ subs' = [subs EXCEPT ![n] = @ \cup {name}]
    /\ UNCHANGED <<nid, closed, cmd_count, send, rh, handlers, inbox, remote, tasks,
                   sweeper, recvLoop, now, warned, conn, handled, log>>
    /\ UNCHANGED <<iterVars, linkVars, regVars, closers, brokerVars, pingVars, handleVars, busVars>>

\* Node.leave / RedisConnection.leave: punsubscribe
BusLeave(n, name) ==
    /\ name \in subs[n]
    /\ subs' = [subs EXCEPT ![n] = @ \ {name}]
    /\ UNCHANGED <<nid, closed, cmd_count, send, rh, handlers, inbox, remote, tasks,
                   sweeper, recvLoop, now, warned, conn, handled, log>>
    /\ UNCHANGED <<iterVars, linkVars, regVars, closers, brokerVars, pingVars, handleVars, busVars>>

\* _verify_name raises InvalidChannelError
InvalidName(name) == "|" \in Range(Spell(name))

\* a send that looks at the connection before it looks at the names
SendChecksConnectedFirst(ds) ==
    IF ds = << >> THEN "cancelled"
    ELSE IF ~conn.pubsub THEN "NotConnectedError"
    ELSE IF \E i \in DOMAIN ds : InvalidName(ds[i]) THEN "InvalidChannelError"
    ELSE "ok"

\* RedisConnection.send, what precedes the broker commands: no destination
\* cancels the call (a warning is logged, 0 is returned), then _verify_name
\* for each name, then _verify_connected
SendChecks(ds) ==
    IF ds = << >> THEN "cancelled"
    ELSE IF \E i \in DOMAIN ds : InvalidName(ds[i]) THEN "InvalidChannelError"
    ELSE IF ~conn.pubsub THEN "NotConnectedError"
    ELSE "ok"

\* join and leave: _verify_name, then _verify_connected
ChannelChecks(name) ==
    IF InvalidName(name) THEN "InvalidChannelError"
    ELSE IF ~conn.pubsub THEN "NotConnectedError"
    ELSE "ok"

\* RedisConnection.send(data, destinations) with the destinations in the order
\* ds: after the checks the liveness ping (ping_while_sending), then the topic
\* is published as joined; cmds are the commands the broker was sent
AdapterSent(via, input, ds, warn) ==
    [flip |-> ~bus.flip, via |-> via, input |-> input, warned |-> warn,
     topic |-> IF SendChecks(ds) = "ok" THEN ds ELSE << >>,
     got |-> IF SendChecks(ds) = "ok" THEN Deliveries(ds) ELSE [n \in Nodes |-> 0],
     error |-> SendChecks(ds),
     cmds |-> IF SendChecks(ds) = "ok" THEN <<"ping", "publish">> ELSE << >>]

\* a caller hands a list to the adapter's send
AdapterSend(ds) ==
    /\ bus' = AdapterSent("adapter", [str |-> FALSE, names |-> ds], ds, FALSE)
    /\ UNCHANGED <<iterVars, linkVars, regVars, nodeVars, closers, brokerVars, pingVars, handleVars>>

\* Node.send_no_response: a string becomes a list; "all" in a longer list
\* warns and leaves ['all']; then set(destinations)
Normalised(input) ==
    LET l == input.names
        warn == "all" \in Range(l) /\ Len(l) > 1
    IN [warned |-> warn, set |-> IF warn THEN {"all"} ELSE Range(l)]

\* Node.send_no_response, the adapter iterating the set in some order
NodeSendNoResponse(input) ==
    /\ \E ds \in Orders(Normalised(input).set) :
          bus' = AdapterSent("node", input, ds, Normalised(input).warned)
    /\ UNCHANGED <<iterVars, linkVars, regVars, nodeVars, closers, brokerVars, pingVars, handleVars>>

\* a call of the adapter other than send: how it ended and what it sent
AdapterCalled(via, names, e, cmds) ==
    [flip |-> ~bus.flip, via |-> via, input |-> [str |-> TRUE, names |-> names],
     warned |-> FALSE, topic |-> << >>, got |-> [n \in Nodes |-> 0],
     error |-> e, cmds |-> IF e = "ok" THEN cmds ELSE << >>]

\* the names a caller hands to the adapter of A: a good one and a bad one
ApiNames == {"x", "a|b"}

\* RedisConnection.join(name) on the adapter of A
AdapterJoin(name) ==
    /\ subs' = IF ChannelChecks(name) = "ok"
               THEN [subs EXCEPT ![Self] = @ \cup {name}] ELSE subs
    /\ bus' = AdapterCalled("join", <<name>>, ChannelChecks(name), <<"psubscribe">>)
    /\ UNCHANGED <<nid, closed, cmd_count, send, rh, handlers, inbox, remote, tasks,
                   sweeper, recvLoop, now, warned, conn, handled, log>>
    /\ UNCHANGED <<iterVars, linkVars, regVars, closers, brokerVars, pingVars, handleVars>>

\* RedisConnection.leave(name) on the adapter of A
AdapterLeave(name) ==
    /\ subs' = IF ChannelChecks(name) = "ok"
               THEN [subs EXCEPT ![Self] = @ \ {name}] ELSE subs
    /\ bus' = AdapterCalled("leave", <<name>>, ChannelChecks(name), <<"punsubscribe">>)
    /\ UNCHANGED <<nid, closed, cmd_count, send, rh, handlers, inbox, remote, tasks,
                   sweeper, recvLoop, now, warned, conn, handled, log>>
    /\ UNCHANGED <<iterVars, linkVars, regVars, closers, brokerVars, pingVars, handleVars>>

\* RedisConnection.reconnect and RedisConnection.recv, called directly:
\* _verify_connected comes first in both
AdapterVerified(op) ==
    /\ bus' = AdapterCalled(op, << >>,
                            IF conn.pubsub THEN "ok" ELSE "NotConnectedError",
                            IF op = "reconnect" THEN <<"set">> ELSE <<"parse_response">>)
    /\ UNCHANGED <<iterVars, linkVars, regVars, nodeVars, closers, brokerVars, pingVars, handleVars>>

\* the adapter of A used directly, before connect, while connected, after close
NextApi ==
    \/ \E so \in BOOLEAN : NodeConnect(so)
    \/ Close
    \/ \E name \in ApiNames : AdapterJoin(name)
    \/ \E name \in ApiNames : AdapterLeave(name)
    \/ \E ds \in Lists(ApiNames) : AdapterSend(ds)
    \/ \E op \in {"reconnect", "recv"} : AdapterVerified(op)

SpecApi == InitLife /\ [][NextApi]_vars

NextBus ==
    \/ \E n \in Nodes, name \in JoinNames : BusJoin(n, name)
    \/ \E n \in Nodes, name \in JoinNames : BusLeave(n, name)
    \/ \E ds \in Lists(Names) : AdapterSend(ds)
    \/ \E input \in Destinations : NodeSendNoResponse(input)

SpecBus == Init /\ [][NextBus]_vars

\* ------------------------------------------------------- register_cmd
\* a registration that replaces whatever holds the name
RegisterCmdOverwrite(reg, cmd_type) ==
    [error |-> FALSE, registry |-> (CmdName(cmd_type) :> cmd_type) @@ reg]

\* JSONSerializer.register_cmd on the registry reg: CommandHasRegisteredError
\* when another class holds the name, else the class is stored under its name
RegisterCmd(reg, cmd_type) ==
    IF CmdName(cmd_type) \in DOMAIN reg /\ reg[CmdName(cmd_type)] # cmd_type
    THEN [error |-> TRUE, registry |-> reg]
    ELSE [error |-> FALSE, registry |-> (CmdName(cmd_type) :> cmd_type) @@ reg]

\* Node.register_cmd(cmd_typ, ctx): the serializer's register_cmd, then the
\* context is stored unless none was given; an error ends the call in between
NodeRegisterCmd(cmd_typ, ctx) ==
    LET r == RegisterCmd(registry, cmd_typ) IN
      /\ registry' = r.registry
      /\ cmd_contexts' = IF ~r.error /\ ctx # NoContextSpecified
                         THEN (CmdName(cmd_typ) :> ctx) @@ cmd_contexts
                         ELSE cmd_contexts
      /\ registered' = [typ |-> cmd_typ, ctx |-> ctx, raised |-> r.error,
                        flip |-> ~registered.flip]
      /\ UNCHANGED <<iterVars, linkVars, nodeVars, closers, brokerVars, pingVars, handleVars, busVars>>

NextReg == \E cmd_typ \in CmdTypes, ctx \in Contexts : NodeRegisterCmd(cmd_typ, ctx)

SpecReg == Init /\ [][NextReg]_vars

\* no two connected adapters hold the same uid
DistinctUids ==
    \A a, b \in Adapters :
        (a # b /\ adp[a].pc = "connected" /\ adp[b].pc = "connected")
            => adp[a].uid # adp[b].uid

\* C12 as stated: after concurrent connects the nids are distinct and each
\* accepted key holds 1 with a TTL in (0, expire].
C12_AsStated ==
    /\ DistinctUids
    /\ \A a \in Adapters : adp[a].pc = "connected" =>
           /\ keys[adp[a].uid].val = 1
           /\ keys[adp[a].uid].ttl \in 1..MaxExpire

\* C12, amended: a candidate is accepted exactly when its INCR returned 1 (the
\* key was absent), it then holds 1 with TTL expire; a colliding candidate is
\* not accepted and its INCR raises the owner's key above 1; the nids are
\* distinct and each accepted key holds a value >= 1 with a TTL in (0, expire].
C12_Connect ==
    [][/\ \A a \in Adapters, u \in Uids :
             AdpTryUid(a, u) =>
                 /\ (adp'[a].pc = "connected") <=> (keys[u] = NoKey)
                 /\ adp'[a].pc = "connected" =>
                        adp'[a].uid = u /\ keys'[u] = [val |-> 1, ttl |-> MaxExpire]
                 /\ adp'[a].pc = "connecting" =>
                        /\ adp'[a].uid = NoUid
                        /\ keys'[u] = [keys[u] EXCEPT !.val = @ + 1]
       /\ DistinctUids'
       /\ \A a \in Adapters : adp'[a].pc = "connected" =>
              /\ keys'[adp'[a].uid].val >= 1
              /\ keys'[adp'[a].uid].ttl \in 1..MaxExpire]_vars

\* C12 witness: both adapters are connected, one after colliding with the other
C12_Witness ==
    /\ adp[1].pc = "connected" /\ adp[2].pc = "connected"
    /\ adp[1].uid # adp[2].uid
    /\ \E u \in Uids : keys[u].val = 2

\* C13: no two connected, un-closed adapters hold the same nid, in every
\* reachable state, outages and reconnect() included.
C13_UniqueWhileAlive == DistinctUids

\* C14: close() on a connected adapter that reaches the broker leaves the key
\* absent, close() on any other adapter touches no key, and the heartbeat of a
\* closed adapter never writes the key again.
C14_KeyGone ==
    [][\A a \in Adapters :
          /\ AdpClose(a) =>
                 IF adp[a].pc = "connected"
                 THEN adp[a].link => keys'[adp[a].uid] = NoKey
                 ELSE keys' = keys
          /\ (HbWrite(a) /\ adp[a].pc = "closed") => keys' = keys]_vars

\* C15: a send that publishes observed the pong of its own PING; shown for
\* runs in which every caller has the same lock, so the sends are serialised.
C15_OwnPong ==
    \A s \in 1..MaxSenders :
        (/\ asend[s].pc = "published"
         /\ \A t \in 1..MaxSenders : asend[t].lock \in {0, asend[s].lock})
            => asend[s].by = s

\* C16: at most one caller is inside send's clear / ping / wait / publish
\* sequence at any time, the first two callers included.
C16_Serialised ==
    \A s, t \in 1..MaxSenders :
        (asend[s].pc = "waiting" /\ asend[t].pc = "waiting") => s = t

\* C17: a send that has pinged eventually returns a count or raises, also
\* with send_timeout unset and no thread calling recv.
C17_SendReturns ==
    \A s \in 1..MaxSenders :
        (asend[s].pc = "waiting") ~> (asend[s].pc \in {"published", "raised"})

\* C18: once the node is closed a running recv_until_close returns: it is not
\* left by an error that the close itself brought about.
C18_ReturnsAfterClose ==
    [][(closed /\ recvLoop.pc \in {"loop", "reconnect"})
          => ~(recvLoop'.pc = "raised" /\ recvLoop'.error = "NotConnectedError")]_vars

\* C19: every add_response on an UpdateTimeoutPerReceive handler sets its
\* deadline to now + timeout.
C19_DeadlineReset ==
    [][\A m \in {t.msg : t \in tasks} :
          (/\ Handled(m)
           /\ m.cid \in DOMAIN handlers
           /\ rh[handlers[m.cid]].class = "UpdateTimeoutPerReceive")
             => rh'[handlers[m.cid]].timeout_at = now + rh[handlers[m.cid]].timeout]_vars

\* C20: every add_response(v) on a Callback handler invokes the callback with
\* v once, v being in the results by then.
C20_CallbackInvoked ==
    [][\A m \in {t.msg : t \in tasks} :
          (/\ Handled(m)
           /\ m.cid \in DOMAIN handlers
           /\ rh[handlers[m.cid]].class = "Callback")
             => /\ rh'[handlers[m.cid]].called =
                       Append(rh[handlers[m.cid]].called, Response(m))
                /\ rh'[handlers[m.cid]].results =
                       Append(rh[handlers[m.cid]].results, Response(m))]_vars

\* C21: a finalize() call that returns gives true exactly when the handler is
\* finalised at its return, whatever add_response and set_num_receivers calls
\* came before it.
C21_FinalizeIffFinalised ==
    [][(HFinalize /\ calls'.finalize \in {"true", "false"})
          => (calls'.finalize = "true" <=> hnd'.finalized)]_vars

\* C22: the results of a finalised handler no longer change.
C22_Frozen ==
    [][\A c \in DOMAIN rh :
          (rh[c].finalized /\ c \in DOMAIN rh') => rh'[c].results = rh[c].results]_vars

\* C23: when the iteration stops, every response that was added before the
\* handler was finalised has been yielded.
C23_NothingLeft ==
    reader.pc = "stopped" => Len(reader.yielded) >= calls.final_count

\* C24: get warns exactly when __next__ had been called before it; it returns
\* None when its wait ends on a handler that is not finalised (only a wait with
\* a timeout ends so), else the list of the queued results; a list is returned
\* for a finalised handler only.
C24_Get ==
    [][/\ HGetStart("timed") \/ HGetStart("forever")
            => calls'.warned = hnd.is_next_executed
       /\ HGetReturn =>
            /\ calls'.warned = calls.warned
            /\ IF hnd.finalized
               THEN ~calls'.ret.null /\ calls'.ret.list = hnd.results
               ELSE calls'.ret.null /\ calls.mode = "timed"
       /\ (calls'.get = "returned" /\ ~calls'.ret.null) => hnd'.finalized]_vars

\* C24 witness: after an iteration took the first response, a get returned the
\* rest with the warning, and an earlier state: a get returned None
C24_Witness ==
    /\ calls.get = "returned"
    /\ calls.warned
    /\ ~calls.ret.null
    /\ Len(reader.yielded) = 1
    /\ calls.ret.list = <<2>>

C26_DeliveredIffJoined ==
    [][(bus'.flip # bus.flip /\ bus'.topic # << >>) =>
          \A n \in Nodes :
              bus'.got[n] > 0 <=> subs[n] \cap Range(bus'.topic) # {}]_vars

\* C27: send_no_response passes each name once; "all" together with another
\* name gives exactly {"all"} and a warning, and there is no warning otherwise.
C27_Normalised ==
    bus.via = "node" =>
        LET D == Range(bus.input.names) IN
          /\ Cardinality(Range(bus.topic)) = Len(bus.topic)
          /\ Range(bus.topic) = IF "all" \in D /\ D # {"all"} THEN {"all"} ELSE D
          /\ bus.warned <=> ("all" \in D /\ D # {"all"})

\* C28: the adapter's own send names each destination once in the topic, and
\* reduces "all" with another name to "all" alone, with a warning.
C28_AdapterNormalises ==
    bus.via = "adapter" =>
        LET D == Range(bus.input.names) IN
          /\ Cardinality(Range(bus.topic)) = Len(bus.topic)
          /\ ("all" \in D /\ D # {"all"}) => (bus.topic = <<"all">> /\ bus.warned)

\* C29: Node.send given both a response_handler and a response_timeout raises
\* ValueError: that call publishes nothing and leaves the handler map (and the
\* handlers) as they were, then and later.
C29_BothRaises ==
    [][/\ \A s \in Slots, D \in DestChoices, h \in UserHandlers, k \in SendKinds :
             SendWithHandler(s, D, h, 0, k) =>
                 /\ send'[s].pc = "invalid"
                 /\ inbox' = inbox /\ remote' = remote
                 /\ handlers' = handlers /\ rh' = rh
       /\ \A s \in Slots :
             send[s].pc = "invalid" =>
                 /\ send'[s] = send[s]
                 /\ send[s].cid \notin DOMAIN handlers'
                 /\ \A m \in inbox' : m.cid # send[s].cid
                 /\ \A r \in remote' : r.msg.cid # send[s].cid]_vars

\* C29 witness: one send raised ValueError, another with a handler alone was
\* published and registered
C29_Witness ==
    \E s, r \in Slots :
        /\ send[s].pc = "invalid"
        /\ send[r].pc = "done"
        /\ send[r].cid \in DOMAIN handlers
        /\ "called" \in DOMAIN rh[handlers[send[r].cid]]

\* C30: the heartbeat logs "Server disconnected" at a failed refresh that
\* follows a success (or is the first), "Server reconnected" at a success that
\* follows a failure, and nothing else: the two records alternate and the first
\* is "Server disconnected"; each iteration makes one refresh.
C30_OneShot ==
    [][\A a \in Adapters :
          LET logs == adp'[a].parity # adp[a].parity IN
            /\ logs => HbWrite(a)
            /\ HbWrite(a) =>
                 /\ adp'[a].connected = adp[a].link
                 /\ logs <=> (adp[a].link # adp[a].connected)
                 /\ logs => /\ adp'[a].last = IF adp[a].link THEN "Server reconnected"
                                                              ELSE "Server disconnected"
                            /\ adp'[a].last # adp[a].last
                            /\ adp[a].last = "" => adp'[a].last = "Server disconnected"
                 /\ adp'[a].hb = "loop"
                 /\ adp[a].link => keys'[adp[a].uid] = [val |-> 1, ttl |-> MaxExpire]
            /\ (adp[a].hb = "loop" /\ adp'[a].hb = "write") => ~adp[a].stop]_vars

\* C30 witness: a heartbeat has reported an outage and the recovery from it,
\* and has refreshed the key again since
C30_Witness ==
    \E a \in Adapters :
        /\ adp[a].last = "Server reconnected"
        /\ adp[a].connected /\ adp[a].link
        /\ adp[a].hb = "loop"
        /\ keys[adp[a].uid] = [val |-> 1, ttl |-> MaxExpire]

\* C31: whenever recv_until_close(close_when_exit=True) ends, by returning or
\* by an exception that leaves its loop, the node is closed at that moment;
\* with close_when_exit=False no step of recv_until_close closes the node.
C31_CloseWhenExit ==
    [][/\ (recvLoop'.pc \in {"exited", "raised"} /\ recvLoop.close_when_exit) => closed'
       /\ (~recvLoop.close_when_exit /\ closed' # closed) => recvLoop' = recvLoop]_vars

\* C31 witness: an open node whose loop was left by an error of recv, and
\* which the exit closed (the adapter's close ran once)
C31_Witness ==
    /\ recvLoop.pc = "raised"
    /\ recvLoop.error = "CommandNotRegisteredError"
    /\ recvLoop.close_when_exit
    /\ closed
    /\ conn.closes = 1

\* C32: register_cmd of a class already registered under its name succeeds and
\* leaves the registry as it is; register_cmd of another class under a
\* registered name raises CommandHasRegisteredError and leaves the registry
\* and the node's context map as they are; a new name is added.
C32_RegisterCmd ==
    [][\A cmd_typ \in CmdTypes, ctx \in Contexts :
          NodeRegisterCmd(cmd_typ, ctx) =>
             IF CmdName(cmd_typ) \notin DOMAIN registry
             THEN /\ ~registered'.raised
                  /\ registry' = (CmdName(cmd_typ) :> cmd_typ) @@ registry
             ELSE IF registry[CmdName(cmd_typ)] = cmd_typ
             THEN /\ ~registered'.raised
                  /\ registry' = registry
             ELSE /\ registered'.raised
                  /\ registry' = registry
                  /\ cmd_contexts' = cmd_contexts]_vars

\* C32 witness: T1 holds the name with its context, and T2, registered with
\* another context under the same name, was refused
C32_Witness ==
    /\ registered.raised
    /\ registered.typ = "T2"
    /\ registered.ctx = "c2"
    /\ "t" \in DOMAIN registry /\ registry["t"] = "T1"
    /\ "t" \in DOMAIN cmd_contexts /\ cmd_contexts["t"] = "c1"

\* C33: join, leave and send check in a fixed order and send the broker
\* nothing when a check fails: a send without destinations returns 0 with a
\* warning, connected or not; else a name with "|" raises InvalidChannelError,
\* connected or not; else an adapter without a connection raises
\* NotConnectedError, as reconnect and recv do.
C33_Preconditions ==
    [][bus'.flip # bus.flip =>
          LET names == bus'.input.names
              bad == \E i \in DOMAIN names : InvalidName(names[i])
              connected == IF conn.pubsub THEN "ok" ELSE "NotConnectedError"
          IN /\ bus'.via = "adapter" =>
                   bus'.error = (IF names = << >> THEN "cancelled"
                                 ELSE IF bad THEN "InvalidChannelError" ELSE connected)
             /\ bus'.via \in {"join", "leave"} =>
                   bus'.error = (IF bad THEN "InvalidChannelError" ELSE connected)
             /\ bus'.via \in {"reconnect", "recv"} => bus'.error = connected
             /\ bus'.error # "ok" =>
                   /\ bus'.cmds = << >>
                   /\ bus'.topic = << >>
                   /\ \A n \in Nodes : bus'.got[n] = 0
                   /\ subs' = subs]_vars

\* C33 witness: a closed adapter was asked to send to a good and a bad name
C33_Witness ==
    /\ bus.via = "adapter"
    /\ bus.input.names = <<"x", "a|b">>
    /\ bus.error = "InvalidChannelError"
    /\ ~conn.pubsub
    /\ conn.closes = 1

\* the wrappers a step publishes
Published == (inbox' \ inbox) \cup {r.msg : r \in remote' \ remote}

\* C34: Node.send allocates the cid and chooses the handler, then publishes
\* the wrapper {nid, cid, cmd}, then sets the handler's num_receivers to the
\* count the publish returned and inserts the handler under that cid, then
\* returns; a publish that raises leaves the map as it was.
C34_SendOrder ==
    [][\A s \in Slots :
          LET c == send[s].cid IN
          /\ (send[s].pc = "idle" /\ send'[s].pc # "idle") =>
                 /\ send'[s].pc = "created"
                 /\ send'[s].cid = Str(cmd_count)
                 /\ send'[s].cid \in DOMAIN rh' \ DOMAIN rh
                 /\ rh'[send'[s].cid].num_receivers = None
                 /\ Published = {}
                 /\ handlers' = handlers
          /\ (send[s].pc = "created" /\ send'[s].pc = "published") =>
                 /\ \A m \in Published : m.type = "wrapper" /\ m.cid = c /\ m.from = nid
                 /\ send'[s].num = Cardinality(inbox' \ inbox) + Cardinality(remote' \ remote)
                 /\ send'[s].cid = c
                 /\ rh' = rh
                 /\ handlers' = handlers
          /\ (send[s].pc = "created" /\ send'[s].pc = "raised") =>
                 /\ Published = {}
                 /\ rh' = rh
                 /\ handlers' = handlers
          /\ send'[s].pc = "done" =>
                 \/ send[s].pc = "done" /\ send'[s] = send[s]
                 \/ /\ send[s].pc = "published"
                    /\ send'[s].cid = c
                    /\ rh'[c].num_receivers = send[s].num
                    /\ c \notin DOMAIN handlers
                    /\ handlers' = (c :> c) @@ handlers
                    /\ Published = {}
          /\ send'[s].pc \in {"published", "raised"} => send[s].pc \in {"created", send'[s].pc}
          /\ send'[s].pc = "created" => send[s].pc \in {"idle", "created"}]_vars

\* C34 witness: of two sends one returned its handler, registered under its
\* cid with the count of the publish, and the other raised in the publish
C34_Witness ==
    \E s, r \in Slots :
        /\ send[s].pc = "done"
        /\ send[s].cid \in DOMAIN handlers
        /\ rh[handlers[send[s].cid]].num_receivers = 1
        /\ send[r].pc = "raised"
        /\ send[r].cid \in DOMAIN rh
        /\ send[r].cid \notin DOMAIN handlers

\* the sweeper is inside a sweep: iterating its snapshot
Sweeping(sw) == sw.pc \in {"iter", "remove"}

\* C35: a sweep snapshots the map, calls finalize() once on every handler of
\* the snapshot, removes from the map exactly the cids whose finalize()
\* returned true, and leaves every other entry in place.
C35_Sweep ==
    [][/\ (~Sweeping(sweeper) /\ Sweeping(sweeper')) => sweeper'.snapshot = handlers
       /\ \A c \in DOMAIN handlers \ DOMAIN handlers' :
              /\ sweeper.pc = "remove" /\ sweeper.cur = c
              /\ rh[handlers[c]].finalized
              /\ DOMAIN handlers' = DOMAIN handlers \ {c}
       /\ (sweeper.pc = "iter" /\ sweeper'.pc = "remove") =>
              /\ sweeper'.cur \in DOMAIN sweeper.snapshot
              /\ rh'[sweeper.snapshot[sweeper'.cur]].finalized
       /\ (Sweeping(sweeper) /\ ~Sweeping(sweeper')) =>
              DOMAIN sweeper'.snapshot \subseteq {sweeper'.cur}]_vars

\* C36: a connection error of recv on a closed node ends recv_until_close
\* without an exception and without a reconnect attempt; on an open node it
\* starts the reconnect loop, once, and the receive loop goes on when a
\* reconnect succeeds.
C36_ConnectionError ==
    [][/\ (recvLoop.pc = "loop" /\ closed /\ recvLoop' # recvLoop) =>
              /\ recvLoop'.pc = "exited"
              /\ recvLoop'.error = "None"
              /\ conn'.reconnects = conn.reconnects
              /\ log' = log
       /\ (recvLoop.pc # "reconnect" /\ recvLoop'.pc = "reconnect") =>
              /\ recvLoop.pc = "loop"
              /\ ~closed
              /\ conn.server = "down"
              /\ recvLoop'.i = 0
              /\ conn'.reconnects = conn.reconnects
       /\ (recvLoop.pc = "reconnect" /\ conn.server = "down" /\ conn'.server = "up") =>
              /\ conn'.reconnects = conn.reconnects + 1
              /\ recvLoop'.pc = "loop"
              /\ recvLoop'.error = "None"
       /\ conn'.reconnects # conn.reconnects => recvLoop.pc = "reconnect"]_vars

\* C36 witness: the loop is receiving again on an open node after the second
\* reconnect attempt went through
C36_Witness ==
    /\ recvLoop.pc = "loop"
    /\ ~closed
    /\ conn.server = "up"
    /\ conn.reconnects = 2
    /\ log # << >> /\ log[Len(log)] = ReconnectedMsg

\* C37: connect on a fresh node calls adapter.connect() once and records the
\* nid, then joins the nid, then joins "all" unless send_only, then starts the
\* sweeper, once; with send_only "all" is never joined.
C37_ConnectOrder ==
    [][/\ nid' # nid =>
              /\ nid = NoNid /\ nid' = Self
              /\ connecting.connects = 0 /\ connecting'.connects = 1
              /\ conn'.pubsub
              /\ connecting.joined = << >> /\ connecting'.joined = << >>
              /\ connecting.started = 0 /\ connecting'.started = 0
       /\ connecting'.connects <= 1
       /\ connecting'.joined # connecting.joined =>
              /\ nid = Self
              /\ connecting'.started = 0
              /\ \/ connecting.joined = << >> /\ connecting'.joined = <<nid>>
                 \/ /\ connecting.joined = <<nid>> /\ connecting'.joined = <<nid, "all">>
                    /\ ~connecting.send_only
              /\ subs'[Self] = subs[Self] \cup {connecting'.joined[Len(connecting'.joined)]}
       /\ connecting'.started # connecting.started =>
              /\ connecting.started = 0 /\ connecting'.started = 1
              /\ connecting.joined = IF connecting.send_only THEN <<nid>> ELSE <<nid, "all">>
              /\ sweeper.pc = "none" /\ sweeper' = IdleSweeper
       /\ sweeper.pc = "none" /\ sweeper'.pc # "none" =>
              connecting'.started # connecting.started
       /\ connecting'.send_only => "all" \notin subs'[Self]]_vars

\* C37 witness: connect(send_only=True) has returned: the adapter connected
\* once, the node joined its nid only, one sweeper was started
C37_Witness ==
    /\ connecting.pc = "done"
    /\ connecting.send_only
    /\ connecting.connects = 1
    /\ connecting.joined = <<Self>>
    /\ subs[Self] = {Self}
    /\ connecting.started = 1
    /\ sweeper.pc = "check"

\* C38: while the node is connected and not closed the sweeper keeps running:
\* finalize() returns a boolean for every handler Node.send can register, it
\* never raises out of the sweep.
C38_SweeperRuns ==
    (nid # NoNid /\ ~closed) => sweeper.pc \in {"check", "iter", "remove"}

\* C39: a command sent once through the node reaches each node at most once,
\* whatever channels the node has joined (names with glob characters set
\* aside), so the node executes it and answers it at most once.
C39_OncePerNode ==
    [][(/\ bus'.flip # bus.flip
        /\ bus'.via = "node"
        /\ bus'.error = "ok"
        /\ \A n \in Nodes : "*" \notin subs[n]) =>
           \A n \in Nodes : bus'.got[n] <= 1]_vars

\* the readers that hold a permit and have not popped yet
Permitted == {i \in 1..MaxReaders : iterating.readers[i].pc = "pop"}

\* C40: the iteration semaphore never holds more permits than there are
\* queued results, a reader that acquired a permit finds a result to pop,
\* and num_received_results, read under the lock, is the number of
\* add_response calls completed and never decreases.
C40_Permits ==
    [][/\ hnd'.iter_semaphore + Cardinality(Permitted') <= Len(hnd'.results)
       /\ \A i \in 1..MaxReaders : iterating'.readers[i].pc # "IndexError"
       /\ iterating'.lock = 0 => hnd'.num_received_results = iterating'.completed
       /\ hnd'.num_received_results >= hnd.num_received_results]_vars

\* C40 witness: two add_response calls have returned, both readers acquired a
\* permit, one has popped its result and the other is about to
C40_Witness ==
    /\ iterating.completed = 2
    /\ hnd.num_received_results = 2
    /\ iterating.readers[1].pc = "pop"
    /\ Len(iterating.readers[2].yielded) = 1
    /\ hnd.iter_semaphore = 0
    /\ Len(hnd.results) = 1

====
